---- MODULE Spec2Model ----
(***************************************************************************)
(* Model of the APNs pusher firmware:                                      *)
(*   - the NVS-backed token registry      (main/token_store.c)             *)
(*   - the REST handlers and the two background tasks (main/api_server.c)  *)
(*   - the APNs client apns_send_notification (apns.c, whose text is kept  *)
(*     in PLAN_push_token_mgmt.md, lines 309-750)                          *)
(***************************************************************************)
EXTENDS Integers, Sequences, FiniteSets, TLC

(***************************************************************************)
(* Domains.  Keys are IPv4 strings (at most 15 characters, the NVS key     *)
(* limit).  Tokens are device-token strings; only their identity and their *)
(* length matter.  tokL is a token of exactly TOKEN_LEN characters: the    *)
(* handlers accept it (their body buffers are 300 and 350 bytes) and       *)
(* nvs_set_str stores it, but it does not fit a char[TOKEN_LEN] buffer.    *)
(***************************************************************************)
Keys == {"10.0.0.1", "10.0.0.2", "10.0.0.3"}

\* The IPs the modelled registry requests name
ReqKeys == {"10.0.0.1", "10.0.0.2"}

Tokens == {"tokA", "tokB", "tokL"}

NoTok == "(absent)"

TOKEN_LEN == 100

StrLen(tok) == IF tok = "tokL" THEN TOKEN_LEN ELSE 64

NS_SEND_S == "tok_snd_s"

NS_SEND_P == "tok_snd_p"

NS_BLOCK_S == "tok_blk_s"

NS_BLOCK_P == "tok_blk_p"

Namespaces == {NS_SEND_S, NS_SEND_P, NS_BLOCK_S, NS_BLOCK_P}

ServerTypes == {"sandbox", "production"}

\* server_type values a request may carry ("" stands for an absent field)
ReqServerTypes == {"sandbox", "production", "staging", ""}

ESP_OK == "ESP_OK"

ESP_FAIL == "ESP_FAIL"

ESP_ERR_NVS_NOT_FOUND == "ESP_ERR_NVS_NOT_FOUND"

ESP_ERR_NVS_INVALID_LENGTH == "ESP_ERR_NVS_INVALID_LENGTH"

VARIABLES
    store,              \* the four NVS namespaces: store[ns][key] is a token or NoTok
    last,               \* the last HTTP request handled and its response
    moved,              \* the store before the preceding request, if a move-to-block
    nreq,               \* number of registry requests handled so far
    task,               \* the background tasks created by /push and /blast
    s_apns_mutex,       \* 0 when free, else the task holding it
    s_jwt_cache,        \* the cached credential, named by its iat (0 when empty)
    s_jwt_generated_at, \* time the cached credential was generated, 0 = never
    now,                \* what time() returns
    nticks,             \* number of clock advances so far
    entries,            \* blast_task's static token_entry_t entries[TOKEN_MAX_ENTRIES]
    cb,                 \* the static sh2lib callback context (s_post_*, s_resp_*)
    sig,                \* a signature buffer handed to der_sig_to_raw, and the result
    lock,               \* s_apns_mutex with its list of waiting tasks, and its callers
    post,               \* a notification request and the JSON body built for it
    reg,                \* a POST /token in progress, one store access at a time
    boot,               \* app_main: its position and what it has brought up so far
    heap                \* heap contexts of push and blast requests

regvars == <<store, last, moved, nreq>>

\* The variables of the specifications of single parts
sidevars == <<sig, lock, post, reg, boot, heap>>

sendvars == <<task, s_apns_mutex, s_jwt_cache, s_jwt_generated_at, now, nticks, entries, cb,
              sig, lock, post, reg, boot, heap>>

vars == <<store, last, moved, nreq, task, s_apns_mutex, s_jwt_cache,
          s_jwt_generated_at, now, nticks, entries, cb, sig, lock, post, reg, boot, heap>>

EmptyStore == [ns \in Namespaces |-> [k \in Keys |-> NoTok]]

NoRequest == [op |-> "none", auth |-> FALSE, server_type |-> "", ip |-> NoTok,
              token |-> NoTok, flt |-> {}, resp |-> "none", pre |-> EmptyStore,
              out |-> <<>>]

\* Bound on the number of registry requests of a run of the registry alone
MaxRequests == 4

\* Bound on the number of times the clock is seen to have advanced in one run
MaxTicks == 1

\* Capacity of the entries buffer (TOKEN_MAX_ENTRIES, 64 in token_store.h),
\* scaled down so that a send list can exceed it
TOKEN_MAX_ENTRIES == 2

\* Rounds of the polling loop (150 in apns_send_notification), scaled down
MaxRounds == 1

JWT_VALID_SECONDS == 3300

(***************************************************************************)
(* token_store.c                                                           *)
(***************************************************************************)
\* A send_ns that knows one namespace only
send_ns_single(server_type) == NS_SEND_S

send_ns(server_type) == IF server_type = "production" THEN NS_SEND_P ELSE NS_SEND_S

block_ns(server_type) == IF server_type = "production" THEN NS_BLOCK_P ELSE NS_BLOCK_S

\* Each helper returns the esp_err_t, the store afterwards and, for ns_get, the
\* string read.  flt is TRUE when the underlying NVS call fails (nvs_open,
\* nvs_set_str, nvs_erase_key or nvs_commit returning an error).
ns_set(s, ns, key, value, flt) ==
    IF flt THEN [ret |-> ESP_FAIL, st |-> s]
    ELSE [ret |-> ESP_OK, st |-> [s EXCEPT ![ns][key] = value]]

\* nvs_get_str fails with ESP_ERR_NVS_INVALID_LENGTH when the stored string and
\* its terminator do not fit the len bytes of the caller's buffer.
ns_get(s, ns, key, len, flt) ==
    IF flt THEN [ret |-> ESP_FAIL, out |-> NoTok]
    ELSE IF s[ns][key] = NoTok THEN [ret |-> ESP_ERR_NVS_NOT_FOUND, out |-> NoTok]
    ELSE IF StrLen(s[ns][key]) + 1 > len
         THEN [ret |-> ESP_ERR_NVS_INVALID_LENGTH, out |-> NoTok]
    ELSE [ret |-> ESP_OK, out |-> s[ns][key]]

ns_del(s, ns, key, flt) ==
    IF flt THEN [ret |-> ESP_FAIL, st |-> s]
    ELSE IF s[ns][key] = NoTok THEN [ret |-> ESP_ERR_NVS_NOT_FOUND, st |-> s]
    ELSE [ret |-> ESP_OK, st |-> [s EXCEPT ![ns][key] = NoTok]]

token_store_send_set(s, server_type, ip, token, flt) ==
    ns_set(s, send_ns(server_type), ip, token, flt)

token_store_send_get(s, server_type, ip, len, flt) ==
    ns_get(s, send_ns(server_type), ip, len, flt)

token_store_block_get(s, server_type, ip, len, flt) ==
    ns_get(s, block_ns(server_type), ip, len, flt)

\* r1/r2 combination shared by token_store_send_del and token_store_block_del
del_result(r1, r2) ==
    IF r1 = ESP_OK \/ r2 = ESP_OK THEN ESP_OK
    ELSE IF r1 = ESP_ERR_NVS_NOT_FOUND /\ r2 = ESP_ERR_NVS_NOT_FOUND
         THEN ESP_ERR_NVS_NOT_FOUND
    ELSE IF r1 # ESP_OK THEN r1 ELSE r2

\* flt is the set of positions (1, 2, ...) of the NVS calls of the operation that fail
\* A delete that stops after the sandbox namespace
token_store_send_del_first(s, ip, flt) ==
    LET d1 == ns_del(s, NS_SEND_S, ip, 1 \in flt)
    IN [ret |-> d1.ret, st |-> d1.st]

token_store_send_del(s, ip, flt) ==
    LET d1 == ns_del(s, NS_SEND_S, ip, 1 \in flt)
        d2 == ns_del(d1.st, NS_SEND_P, ip, 2 \in flt)
    IN [ret |-> del_result(d1.ret, d2.ret), st |-> d2.st]

token_store_block_del(s, ip, flt) ==
    LET d1 == ns_del(s, NS_BLOCK_S, ip, 1 \in flt)
        d2 == ns_del(d1.st, NS_BLOCK_P, ip, 2 \in flt)
    IN [ret |-> del_result(d1.ret, d2.ret), st |-> d2.st]

token_store_block_set(s, ip, token, flt) ==
    LET w1 == ns_set(s, NS_BLOCK_S, ip, token, 1 \in flt)
        w2 == ns_set(w1.st, NS_BLOCK_P, ip, token, 2 \in flt)
    IN [ret |-> IF w1.ret = ESP_OK /\ w2.ret = ESP_OK THEN ESP_OK
                ELSE IF w1.ret # ESP_OK THEN w1.ret ELSE w2.ret,
        st |-> w2.st]

\* One environment's half of a move: nvs calls base+1 (get), base+2 (set), base+3 (del).
\* The results of ns_set and ns_del are ignored, as in the code.
\* A move that copies the entry and leaves the source in place
move_one_copy(s, src, dst, ip, flt, base) ==
    LET g == ns_get(s, src, ip, TOKEN_LEN, (base + 1) \in flt)
    IN IF g.ret = ESP_OK
       THEN [moved |-> TRUE, st |-> ns_set(s, dst, ip, g.out, (base + 2) \in flt).st]
       ELSE [moved |-> FALSE, st |-> s]

move_one(s, src, dst, ip, flt, base) ==
    LET g == ns_get(s, src, ip, TOKEN_LEN, (base + 1) \in flt)
    IN IF g.ret = ESP_OK
       THEN LET w == ns_set(s, dst, ip, g.out, (base + 2) \in flt)
                d == ns_del(w.st, src, ip, (base + 3) \in flt)
            IN [moved |-> TRUE, st |-> d.st]
       ELSE [moved |-> FALSE, st |-> s]

token_store_move_to_block(s, ip, flt) ==
    LET m1 == move_one(s, NS_SEND_S, NS_BLOCK_S, ip, flt, 0)
        m2 == move_one(m1.st, NS_SEND_P, NS_BLOCK_P, ip, flt, 3)
    IN [ret |-> IF m1.moved \/ m2.moved THEN ESP_OK ELSE ESP_ERR_NVS_NOT_FOUND,
        st |-> m2.st]

token_store_move_to_send(s, ip, flt) ==
    LET m1 == move_one(s, NS_BLOCK_S, NS_SEND_S, ip, flt, 0)
        m2 == move_one(m1.st, NS_BLOCK_P, NS_SEND_P, ip, flt, 3)
    IN [ret |-> IF m1.moved \/ m2.moved THEN ESP_OK ELSE ESP_ERR_NVS_NOT_FOUND,
        st |-> m2.st]

(***************************************************************************)
(* api_server.c: the registry handlers.  Each returns the response sent    *)
(* and the store afterwards.                                               *)
(***************************************************************************)
\* POST /token after authentication and JSON parsing
register(s, server_type, ip, token, flt) ==
    IF server_type \notin ServerTypes
    THEN [resp |-> "bad_request", st |-> s]
    ELSE IF token_store_block_get(s, server_type, ip, TOKEN_LEN, 1 \in flt).ret = ESP_OK
    THEN [resp |-> "blocked", st |-> s]
    ELSE LET g == token_store_send_get(s, server_type, ip, TOKEN_LEN, 2 \in flt)
         IN IF g.ret = ESP_OK /\ g.out = token
            THEN [resp |-> "no_change", st |-> s]
            ELSE LET w == token_store_send_set(s, server_type, ip, token, 3 \in flt)
                 IN [resp |-> IF w.ret # ESP_OK THEN "error" ELSE "ok", st |-> w.st]

\* Mapping of a store result to the response of the delete and move handlers
store_response(ret) ==
    IF ret = ESP_ERR_NVS_NOT_FOUND THEN "not_found"
    ELSE IF ret # ESP_OK THEN "error" ELSE "ok"

block_post(s, ip, token, flt) ==
    LET r == token_store_block_set(s, ip, token, flt)
    IN [resp |-> IF r.ret # ESP_OK THEN "error" ELSE "ok", st |-> r.st]

send_del(s, ip, flt) ==
    LET r == token_store_send_del(s, ip, flt)
    IN [resp |-> store_response(r.ret), st |-> r.st]

block_del(s, ip, flt) ==
    LET r == token_store_block_del(s, ip, flt)
    IN [resp |-> store_response(r.ret), st |-> r.st]

move_to_block(s, ip, flt) ==
    LET r == token_store_move_to_block(s, ip, flt)
    IN [resp |-> store_response(r.ret), st |-> r.st]

move_to_send(s, ip, flt) ==
    LET r == token_store_move_to_send(s, ip, flt)
    IN [resp |-> store_response(r.ret), st |-> r.st]

\* Storage faults the environment injects: none in normal operation
NoFaults == {{}}

\* Storage faults of a failing flash: one of the (up to six) NVS calls of an
\* operation may return an error
Faults == {{}} \cup {{n} : n \in 1 .. 6}

(***************************************************************************)
(* scan.c: app_main.  ESP_ERROR_CHECK aborts on a result other than ESP_OK *)
(***************************************************************************)
WIFI_MAX_RETRY == 5

ESP_ERR_NVS_NO_FREE_PAGES == "ESP_ERR_NVS_NO_FREE_PAGES"

ESP_ERR_NVS_NEW_VERSION_FOUND == "ESP_ERR_NVS_NEW_VERSION_FOUND"

\* What nvs_flash_init can return
NvsInitResults == {ESP_OK, ESP_ERR_NVS_NO_FREE_PAGES, ESP_ERR_NVS_NEW_VERSION_FOUND, ESP_FAIL}

\* Power-on: nothing is initialised
PowerOn == [pc |-> "nvs_flash_init", nvs |-> FALSE, erased |-> FALSE, opened |-> 0,
            token_store |-> FALSE, wifi |-> FALSE, s_retry_num |-> 0, synced |-> FALSE,
            mutex |-> FALSE, server |-> FALSE]

\* app_main has run to its end with every call succeeding
Booted == [PowerOn EXCEPT !.pc = "running", !.nvs = TRUE, !.opened = 4,
                          !.token_store = TRUE, !.wifi = TRUE, !.synced = TRUE,
                          !.mutex = TRUE, !.server = TRUE]

\* The other variables are left as they are by the steps of app_main
BootFrame ==
    UNCHANGED <<regvars, sig, lock, post, reg, heap, task, s_apns_mutex, s_jwt_cache,
                s_jwt_generated_at, now, nticks, entries, cb>>

\* nvs_flash_init, with nvs_flash_erase and a second nvs_flash_init when the
\* first finds no free pages or a new version
BootNvs(ret, erase_ok, ret2) ==
    /\ boot.pc = "nvs_flash_init"
    /\ LET again == ret \in {ESP_ERR_NVS_NO_FREE_PAGES, ESP_ERR_NVS_NEW_VERSION_FOUND}
           final == IF again THEN ret2 ELSE ret
       IN boot' = IF again /\ ~erase_ok THEN [boot EXCEPT !.pc = "abort"]
                  ELSE IF final = ESP_OK
                  THEN [boot EXCEPT !.nvs = TRUE, !.erased = again,
                                    !.pc = "token_store_init"]
                  ELSE [boot EXCEPT !.erased = again, !.pc = "abort"]
    /\ BootFrame

\* token_store_init: nvs_open of the four namespaces in turn; n of them open
\* before one fails (4: all open)
BootTokenStore(n) ==
    /\ boot.pc = "token_store_init"
    /\ boot' = IF n = 4
               THEN [boot EXCEPT !.opened = 4, !.token_store = TRUE, !.pc = "wifi_init_sta"]
               ELSE [boot EXCEPT !.opened = n, !.pc = "abort"]
    /\ BootFrame

\* A wifi_init_sta whose failure does not end app_main
BootWifi_continue(drops) ==
    /\ boot.pc = "wifi_init_sta"
    /\ boot' = IF drops <= WIFI_MAX_RETRY
               THEN [boot EXCEPT !.wifi = TRUE, !.s_retry_num = 0, !.pc = "sync_time"]
               ELSE [boot EXCEPT !.s_retry_num = WIFI_MAX_RETRY, !.pc = "sync_time"]
    /\ BootFrame

\* wifi_init_sta: the station is disconnected `drops` times before it gets an
\* address; the handler reconnects while s_retry_num < WIFI_MAX_RETRY and
\* then sets WIFI_FAIL_BIT.  app_main returns when it fails.
BootWifi(drops) ==
    /\ boot.pc = "wifi_init_sta"
    /\ boot' = IF drops <= WIFI_MAX_RETRY
               THEN [boot EXCEPT !.wifi = TRUE, !.s_retry_num = 0, !.pc = "sync_time"]
               ELSE [boot EXCEPT !.s_retry_num = WIFI_MAX_RETRY, !.pc = "returned"]
    /\ BootFrame

\* sync_time: a failed synchronisation is logged and app_main goes on
BootSyncTime(synced) ==
    /\ boot.pc = "sync_time"
    /\ boot' = [boot EXCEPT !.synced = synced, !.pc = "apns_init"]
    /\ BootFrame

\* ESP_ERROR_CHECK(apns_init()): xSemaphoreCreateMutex returns the mutex or NULL
BootApnsInit(created) ==
    /\ boot.pc = "apns_init"
    /\ boot' = IF created THEN [boot EXCEPT !.mutex = TRUE, !.pc = "api_server_start"]
               ELSE [boot EXCEPT !.pc = "abort"]
    /\ BootFrame

\* api_server_start: httpd_start and the registration of the handlers; its
\* result is not looked at
BootServerStart(started) ==
    /\ boot.pc = "api_server_start"
    /\ boot' = [boot EXCEPT !.server = started, !.pc = "running"]
    /\ BootFrame

\* abort() restarts the chip: RAM is lost, the flash is kept
BootRestart ==
    /\ boot.pc = "abort"
    /\ boot' = PowerOn
    /\ BootFrame

(***************************************************************************)
(* api_server.c: token_register_handler one store access at a time, with a *)
(* move-to-block request handled by another task in between.  The registry *)
(* functions take no lock.                                                 *)
(***************************************************************************)
NoReg == [pc |-> "idle", server_type |-> "", ip |-> NoTok, token |-> NoTok,
          resp |-> "none", raced |-> FALSE]

\* auth_check, read_body, cJSON_Parse and the field checks have passed
RegisterBegin(server_type, ip, token) ==
    /\ reg.pc \in {"idle", "done"}
    /\ nreq < MaxRequests
    /\ nreq' = nreq + 1
    /\ reg' = [NoReg EXCEPT !.pc = "guard1", !.server_type = server_type, !.ip = ip,
                            !.token = token]
    /\ UNCHANGED <<store, last, moved, sig, lock, post, boot, heap, task, s_apns_mutex, s_jwt_cache,
                   s_jwt_generated_at, now, nticks, entries, cb>>

\* Guard 1: token_store_block_get(server_type, ip, ...) == ESP_OK -> "blocked"
RegisterGuard1 ==
    /\ reg.pc = "guard1"
    /\ reg' = IF token_store_block_get(store, reg.server_type, reg.ip, TOKEN_LEN, FALSE).ret
                     = ESP_OK
              THEN [reg EXCEPT !.pc = "done", !.resp = "blocked"]
              ELSE [reg EXCEPT !.pc = "guard2"]
    /\ UNCHANGED <<regvars, sig, lock, post, boot, heap, task, s_apns_mutex, s_jwt_cache,
                   s_jwt_generated_at, now, nticks, entries, cb>>

\* Guard 2: token_store_send_get(...) == ESP_OK && strcmp(existing, token) == 0
\* -> "no_change"
RegisterGuard2 ==
    /\ reg.pc = "guard2"
    /\ LET g == token_store_send_get(store, reg.server_type, reg.ip, TOKEN_LEN, FALSE)
       IN reg' = IF g.ret = ESP_OK /\ g.out = reg.token
                 THEN [reg EXCEPT !.pc = "done", !.resp = "no_change"]
                 ELSE [reg EXCEPT !.pc = "write"]
    /\ UNCHANGED <<regvars, sig, lock, post, boot, heap, task, s_apns_mutex, s_jwt_cache,
                   s_jwt_generated_at, now, nticks, entries, cb>>

\* token_store_send_set(server_type, ip, token) and the response
RegisterWrite ==
    /\ reg.pc = "write"
    /\ LET w == token_store_send_set(store, reg.server_type, reg.ip, reg.token, FALSE)
       IN /\ store' = w.st
          /\ reg' = [reg EXCEPT !.pc = "done",
                                !.resp = IF w.ret # ESP_OK THEN "error" ELSE "ok"]
    /\ UNCHANGED <<last, moved, nreq, sig, lock, post, boot, heap, task, s_apns_mutex, s_jwt_cache,
                   s_jwt_generated_at, now, nticks, entries, cb>>

\* A move-to-block that waits until no register is in progress
ConcurrentMove_serialized(ip) ==
    /\ reg.pc \in {"idle", "done"}
    /\ store' = move_to_block(store, ip, {}).st
    /\ UNCHANGED <<reg, last, moved, nreq, sig, lock, post, boot, heap, task, s_apns_mutex, s_jwt_cache,
                   s_jwt_generated_at, now, nticks, entries, cb>>

\* move_to_block_handler for ip, at any point of a register in progress.
\* raced: the move changed the store after guard 1 of a register of the same ip
\* and before its write.
ConcurrentMove(ip) ==
    /\ store' = move_to_block(store, ip, {}).st
    /\ reg' = [reg EXCEPT !.raced = @ \/ (/\ reg.pc \in {"guard2", "write"}
                                          /\ reg.ip = ip
                                          /\ store' # store)]
    /\ UNCHANGED <<last, moved, nreq, sig, lock, post, boot, heap, task, s_apns_mutex, s_jwt_cache,
                   s_jwt_generated_at, now, nticks, entries, cb>>

\* snprintf(expected, "%s:%s", CONFIG_API_AUTH_USER, CONFIG_API_AUTH_PASS)
Expected == "admin:changeme"

\* sizeof(hdr) in auth_check
HDR_SIZE == 200

\* The Authorization header of a request.  len: what
\* httpd_req_get_hdr_value_len returns (0: no such header); scheme: its first
\* six characters; base64: mbedtls_base64_decode accepts the rest and it fits
\* in 127 bytes; decoded: the decoded bytes, as the parts that NUL bytes
\* separate.
Header(len, scheme, base64, decoded) ==
    [len |-> len, scheme |-> scheme, base64 |-> base64, decoded |-> decoded]

Headers ==
    { Header(0, "", FALSE, <<>>),
      Header(26, "Basic ", TRUE, <<"admin:changeme">>),
      Header(30, "Basic ", TRUE, <<"admin:changeme", "x">>),
      Header(26, "Basic ", TRUE, <<"admin:changeit">>),
      Header(26, "Basic ", TRUE, <<"guest:changeme">>),
      Header(22, "Basic ", TRUE, <<"admin:chang">>),
      Header(30, "Basic ", TRUE, <<"admin:changeme2">>),
      Header(6, "Basic ", TRUE, <<>>),
      Header(24, "Basic ", FALSE, <<>>),
      Header(26, "basic ", TRUE, <<"admin:changeme">>),
      Header(27, "Bearer", TRUE, <<"admin:changeme">>),
      Header(HDR_SIZE, "Basic ", TRUE, <<"guest:changeme">>) }

\* decoded[olen] = 0 and strcmp: the decoded bytes as a C string end at the
\* first NUL
c_str(decoded) == IF decoded = <<>> THEN "" ELSE decoded[1]

\* An auth_check that accepts whatever decodes
auth_check_any(h) ==
    IF h.len = 0 THEN FALSE
    ELSE IF h.len >= HDR_SIZE THEN FALSE
    ELSE IF h.scheme # "Basic " THEN FALSE
    ELSE h.base64

\* auth_check: TRUE when the header is there, fits hdr, starts with "Basic ",
\* decodes, and the decoded string equals user:password; else 401 and FALSE
auth_check(h) ==
    IF h.len = 0 THEN FALSE
    ELSE IF h.len >= HDR_SIZE THEN FALSE
    ELSE IF h.scheme # "Basic " THEN FALSE
    ELSE IF ~h.base64 THEN FALSE
    ELSE c_str(h.decoded) = Expected

\* What a handler answers when auth_check fails: 401, before the body is read
Unauthorized(s) == [resp |-> "unauthorized", st |-> s]

\* Bookkeeping common to the registry handlers.  `last` keeps the request, the
\* response and the store before it; `moved` keeps the store before the
\* preceding request when that request was a move-to-block.  The body of an
\* unauthenticated request is never read, so its fields are not recorded.
Handled(op, auth, server_type, ip, token, flt, r) ==
    /\ nreq' = nreq + 1
    /\ store' = r.st
    /\ last' = [op |-> op, auth |-> auth,
                server_type |-> IF auth THEN server_type ELSE "",
                ip |-> IF auth THEN ip ELSE NoTok,
                token |-> IF auth THEN token ELSE NoTok,
                flt |-> flt, resp |-> r.resp, pre |-> store, out |-> <<>>]
    /\ moved' = IF last.op = "move_to_block" /\ last.auth
                THEN [ip |-> last.ip, pre |-> last.pre]
                ELSE [ip |-> NoTok, pre |-> EmptyStore]
    /\ UNCHANGED sendvars

token_register_handler(auth, server_type, ip, token, flt) ==
    Handled("register", auth, server_type, ip, token, flt,
            IF auth THEN register(store, server_type, ip, token, flt)
            ELSE Unauthorized(store))

tokens_block_post_handler(auth, ip, token, flt) ==
    Handled("block_post", auth, "", ip, token, flt,
            IF auth THEN block_post(store, ip, token, flt) ELSE Unauthorized(store))

tokens_send_del_handler(auth, ip, flt) ==
    Handled("send_del", auth, "", ip, NoTok, flt,
            IF auth THEN send_del(store, ip, flt) ELSE Unauthorized(store))

tokens_block_del_handler(auth, ip, flt) ==
    Handled("block_del", auth, "", ip, NoTok, flt,
            IF auth THEN block_del(store, ip, flt) ELSE Unauthorized(store))

move_to_block_handler(auth, ip, flt) ==
    Handled("move_to_block", auth, "", ip, NoTok, flt,
            IF auth THEN move_to_block(store, ip, flt) ELSE Unauthorized(store))

move_to_send_handler(auth, ip, flt) ==
    Handled("move_to_send", auth, "", ip, NoTok, flt,
            IF auth THEN move_to_send(store, ip, flt) ELSE Unauthorized(store))

\* The six registry endpoints, for requests drawn from the given sets:
\* authentication outcomes A, server_type values S, IPs K, tokens T, faults F
RegistryRequest(A, S, K, T, F) ==
    \/ \E a \in A, srv \in S, ip \in K, tok \in T, f \in F :
          token_register_handler(a, srv, ip, tok, f)
    \/ \E a \in A, ip \in K, tok \in T, f \in F : tokens_block_post_handler(a, ip, tok, f)
    \/ \E a \in A, ip \in K, f \in F : tokens_send_del_handler(a, ip, f)
    \/ \E a \in A, ip \in K, f \in F : tokens_block_del_handler(a, ip, f)
    \/ \E a \in A, ip \in K, f \in F : move_to_block_handler(a, ip, f)
    \/ \E a \in A, ip \in K, f \in F : move_to_send_handler(a, ip, f)

(***************************************************************************)
(* apns.c: apns_send_notification, as run by a background task.            *)
(***************************************************************************)
APNS_ERR_UNREGISTERED == "APNS_ERR_UNREGISTERED"

\* The background tasks of one run
TaskIds == {1, 2}

\* NVS iterates a namespace in a fixed order of its entries
KeySeq == <<"10.0.0.1", "10.0.0.2", "10.0.0.3">>

NoTask == [kind |-> "none", pc |-> "none", use_sandbox |-> TRUE, device_token |-> NoTok,
           pos |-> 0, count |-> 0, i |-> 0, ok |-> 0, fail |-> 0,
           enumd |-> <<>>, sent |-> <<>>,
           ret |-> ESP_FAIL, hd_open |-> FALSE, rounds |-> 0,
           jwtgen |-> FALSE, fate |-> "none", host |-> ""]

\* Step 3 of apns_send_notification: the callback context before a request
FreshContext == [s_post_offset |-> 0, s_resp_done |-> FALSE, s_resp_len |-> 0,
                 s_resp_body |-> ""]

ZeroEntry == [ip |-> "", token |-> "", server_type |-> ""]

\* Program positions between xSemaphoreTake and xSemaphoreGive
CriticalPcs == {"jwt", "connect", "submit", "poll", "done", "give"}

\* xSemaphoreTake(s_apns_mutex, portMAX_DELAY): blocks until the mutex is free
\* A take that does not wait for the holder
xSemaphoreTake_nowait(t) == s_apns_mutex' = t

xSemaphoreTake(t) == s_apns_mutex = 0 /\ s_apns_mutex' = t

xSemaphoreGive(t) == s_apns_mutex' = 0

ESP_ERR_INVALID_ARG == "ESP_ERR_INVALID_ARG"

\* What apns_send_notification can be handed for config and notification;
\* apns_send_task and blast_task pass the addresses of their locals
Pointers == {"NULL", "&cfg", "&notif"}

\* The argument check at the entry of apns_send_notification: whether the
\* call goes on to take the lock, and what it returns at once if not
apns_entry(config, notification) ==
    IF config = "NULL" \/ notification = "NULL"
    THEN [takes |-> FALSE, ret |-> ESP_ERR_INVALID_ARG]
    ELSE [takes |-> TRUE, ret |-> ESP_FAIL]

\* apns_send_notification entry, as called by the tasks: take the lock, then
\* initialise the locals
SendTake(t) ==
    /\ task[t].pc = "take"
    /\ apns_entry("&cfg", "&notif").takes
    /\ xSemaphoreTake(t)
    /\ task' = [task EXCEPT ![t].pc = "jwt", ![t].ret = ESP_FAIL, ![t].hd_open = FALSE,
                            ![t].jwtgen = FALSE, ![t].fate = "none", ![t].rounds = 0]
    /\ UNCHANGED <<regvars, sidevars, s_jwt_cache, s_jwt_generated_at, now, nticks, entries, cb>>

\* A validity test that never finds the cache valid
jwt_expired_always(generated_at, t_now) == TRUE

\* A validity test that lets the credential live one second longer
jwt_expired_late(generated_at, t_now) ==
    generated_at = 0 \/ (t_now - generated_at) > JWT_VALID_SECONDS

\* The cached credential is reused unless none was generated or it is too old
jwt_expired(generated_at, t_now) ==
    generated_at = 0 \/ (t_now - generated_at) >= JWT_VALID_SECONDS

APNS_HOST_PRODUCTION == "api.push.apple.com"

APNS_HOST_SANDBOX == "api.sandbox.push.apple.com"

\* Step 4: the gateway host of the request
apns_host(use_sandbox) == IF use_sandbox THEN APNS_HOST_SANDBOX ELSE APNS_HOST_PRODUCTION

\* The device token the notification points at when the path is built:
\* p->device_token for a push task, entries[i].token for a blast task
device_token_of(tk, ents) ==
    IF tk.kind = "push" THEN tk.device_token ELSE ents[tk.i + 1].token

\* A credential step that records the time of a failed generation
SendPrepare_stamping(t, d, gen_ok, json_ok) ==
    LET tk == task[t]
        t_now == now + d
        expired == jwt_expired(s_jwt_generated_at, t_now)
        tok == device_token_of(tk, entries)
        called == [tk EXCEPT !.sent = Append(@, tok)]
    IN /\ tk.pc = "jwt"
       /\ d > 0 => nticks < MaxTicks
       /\ nticks' = IF d > 0 THEN nticks + 1 ELSE nticks
       /\ now' = t_now
       /\ IF expired /\ ~gen_ok
          THEN /\ task' = [task EXCEPT ![t] = [called EXCEPT !.ret = ESP_FAIL,
                                   !.fate = "jwt_fail", !.pc = "done"]]
               /\ s_jwt_generated_at' = t_now
               /\ UNCHANGED <<s_jwt_cache, cb>>
          ELSE /\ IF expired
                  THEN s_jwt_cache' = t_now /\ s_jwt_generated_at' = t_now
                  ELSE UNCHANGED <<s_jwt_cache, s_jwt_generated_at>>
               /\ IF ~json_ok
                  THEN /\ task' = [task EXCEPT ![t] = [called EXCEPT !.ret = ESP_FAIL,
                                       !.jwtgen = expired, !.fate = "json_fail",
                                       !.pc = "done"]]
                       /\ UNCHANGED cb
                  ELSE /\ task' = [task EXCEPT ![t] = [called EXCEPT
                                       !.ret = IF expired THEN ESP_OK ELSE tk.ret,
                                       !.jwtgen = expired,
                                       !.host = apns_host(tk.use_sandbox),
                                       !.pc = "connect"]]
                       /\ cb' = FreshContext
       /\ UNCHANGED <<regvars, sidevars, s_apns_mutex, entries>>

\* Steps 1-4 without the reset of the callback context
SendPrepare_stale(t, d, gen_ok, json_ok) ==
    LET tk == task[t]
        t_now == now + d
        expired == jwt_expired(s_jwt_generated_at, t_now)
        tok == device_token_of(tk, entries)
        called == [tk EXCEPT !.sent = Append(@, tok)]
    IN /\ tk.pc = "jwt"
       /\ d > 0 => nticks < MaxTicks
       /\ nticks' = IF d > 0 THEN nticks + 1 ELSE nticks
       /\ now' = t_now
       /\ IF expired /\ ~gen_ok
          THEN /\ task' = [task EXCEPT ![t] = [called EXCEPT !.ret = ESP_FAIL,
                                   !.fate = "jwt_fail", !.pc = "done"]]
               /\ UNCHANGED <<s_jwt_cache, s_jwt_generated_at, cb>>
          ELSE /\ IF expired
                  THEN s_jwt_cache' = t_now /\ s_jwt_generated_at' = t_now
                  ELSE UNCHANGED <<s_jwt_cache, s_jwt_generated_at>>
               /\ IF ~json_ok
                  THEN /\ task' = [task EXCEPT ![t] = [called EXCEPT !.ret = ESP_FAIL,
                                       !.jwtgen = expired, !.fate = "json_fail",
                                       !.pc = "done"]]
                       /\ UNCHANGED cb
                  ELSE /\ task' = [task EXCEPT ![t] = [called EXCEPT
                                       !.ret = IF expired THEN ESP_OK ELSE tk.ret,
                                       !.jwtgen = expired,
                                       !.host = apns_host(tk.use_sandbox),
                                       !.pc = "connect"]]
                       /\ UNCHANGED cb
       /\ UNCHANGED <<regvars, sidevars, s_apns_mutex, entries>>

\* Steps 1-4: time(&now), credential (cached or generated), JSON body, callback
\* context, path and authorization header.  d: the time that has passed since
\* the clock was last read; gen_ok: generate_jwt succeeds; json_ok:
\* cJSON_PrintUnformatted returns a string.
SendPrepare(t, d, gen_ok, json_ok) ==
    LET tk == task[t]
        t_now == now + d
        expired == jwt_expired(s_jwt_generated_at, t_now)
        tok == device_token_of(tk, entries)
        called == [tk EXCEPT !.sent = Append(@, tok)]
    IN /\ tk.pc = "jwt"
       /\ d > 0 => nticks < MaxTicks
       /\ nticks' = IF d > 0 THEN nticks + 1 ELSE nticks
       /\ now' = t_now
       /\ IF expired /\ ~gen_ok
          THEN /\ task' = [task EXCEPT ![t] = [called EXCEPT !.ret = ESP_FAIL,
                                   !.fate = "jwt_fail", !.pc = "done"]]
               /\ UNCHANGED <<s_jwt_cache, s_jwt_generated_at, cb>>
          ELSE /\ IF expired
                  THEN s_jwt_cache' = t_now /\ s_jwt_generated_at' = t_now
                  ELSE UNCHANGED <<s_jwt_cache, s_jwt_generated_at>>
               /\ IF ~json_ok
                  THEN /\ task' = [task EXCEPT ![t] = [called EXCEPT !.ret = ESP_FAIL,
                                       !.jwtgen = expired, !.fate = "json_fail",
                                       !.pc = "done"]]
                       /\ UNCHANGED cb
                  ELSE /\ task' = [task EXCEPT ![t] = [called EXCEPT
                                       !.ret = IF expired THEN ESP_OK ELSE tk.ret,
                                       !.jwtgen = expired,
                                       !.host = apns_host(tk.use_sandbox),
                                       !.pc = "connect"]]
                       /\ cb' = FreshContext
       /\ UNCHANGED <<regvars, sidevars, s_apns_mutex, entries>>

\* A connect step that drops the cached credential when the connection fails
SendConnect_invalidating(t, connected) ==
    /\ task[t].pc = "connect"
    /\ task' = IF connected
               THEN [task EXCEPT ![t].hd_open = TRUE, ![t].pc = "submit"]
               ELSE [task EXCEPT ![t].fate = "connect_fail", ![t].pc = "done"]
    /\ s_jwt_generated_at' = IF connected THEN s_jwt_generated_at ELSE 0
    /\ UNCHANGED <<regvars, sidevars, s_apns_mutex, s_jwt_cache, now, nticks, entries, cb>>

\* Step 5: sh2lib_connect; on failure goto done with ret as it stands
SendConnect(t, connected) ==
    /\ task[t].pc = "connect"
    /\ task' = IF connected
               THEN [task EXCEPT ![t].hd_open = TRUE, ![t].pc = "submit"]
               ELSE [task EXCEPT ![t].fate = "connect_fail", ![t].pc = "done"]
    /\ UNCHANGED <<regvars, sidevars, s_apns_mutex, s_jwt_cache, s_jwt_generated_at, now, nticks,
                   entries, cb>>

\* Step 6: sh2lib_do_putpost_with_nv; on sid < 0 goto done with ret as it stands.
\* Otherwise step 7 starts: ret = ESP_FAIL, rounds = 0.
SendSubmit(t, submitted) ==
    /\ task[t].pc = "submit"
    /\ task' = IF submitted
               THEN [task EXCEPT ![t].ret = ESP_FAIL, ![t].rounds = 0, ![t].pc = "poll"]
               ELSE [task EXCEPT ![t].fate = "submit_fail", ![t].pc = "done"]
    /\ UNCHANGED <<regvars, sidevars, s_apns_mutex, s_jwt_cache, s_jwt_generated_at, now, nticks,
                   entries, cb>>

\* What one sh2lib_execute can bring: nothing, response data, the end of the
\* response, data and the end of the response, a stream reset, or a transport
\* error
ExecEvents == {"none", "data", "complete", "data_complete", "rst", "error"}

\* Error bodies of the gateway, as the characters of the reason
ResponseBodies == {"BadDeviceToken", "Unregistered"}

\* strlen of a response body
BodyLen(body) == IF body = "Unregistered" THEN 12 ELSE 14

\* apns_recv_cb: data is appended to s_resp_body; FRAME_COMPLETE and RST_STREAM
\* both set s_resp_done
apns_recv_cb(c, ev, body) ==
    LET got == IF ev \in {"data", "data_complete"} /\ c.s_resp_len = 0
               THEN [c EXCEPT !.s_resp_body = body, !.s_resp_len = BodyLen(body)]
               ELSE c
    IN IF ev \in {"complete", "data_complete", "rst"}
       THEN [got EXCEPT !.s_resp_done = TRUE]
       ELSE got

\* An evaluation that takes every completed response for a success
evaluate_response_lenient(c) == IF c.s_resp_done THEN ESP_OK ELSE ESP_FAIL

\* Step 8: the result from the callback context after the loop
evaluate_response(c) ==
    IF c.s_resp_done /\ c.s_resp_len > 0
    THEN IF c.s_resp_body = "Unregistered" THEN APNS_ERR_UNREGISTERED ELSE ESP_FAIL
    ELSE IF c.s_resp_done /\ c.s_resp_len = 0 THEN ESP_OK
    ELSE ESP_FAIL

\* A polling loop without the bound on its rounds
SendPoll_unbounded(t, ev, body) ==
    LET tk == task[t]
    IN /\ tk.pc = "poll"
       /\ IF ~cb.s_resp_done /\ ev # "error"
          THEN /\ cb' = [apns_recv_cb(cb, ev, body) EXCEPT !.s_post_offset = 1]
               /\ task' = [task EXCEPT ![t].rounds = @ + 1]
          ELSE /\ task' = [task EXCEPT ![t].ret = evaluate_response(cb),
                              ![t].fate = IF cb.s_resp_done THEN "response"
                                          ELSE IF tk.rounds < MaxRounds THEN "exec_error"
                                          ELSE "timeout",
                              ![t].pc = "done"]
               /\ UNCHANGED cb
       /\ UNCHANGED <<regvars, sidevars, s_apns_mutex, s_jwt_cache, s_jwt_generated_at, now, nticks,
                      entries>>

\* Steps 7 and 8: one round of the polling loop, or its exit and the evaluation
SendPoll(t, ev, body) ==
    LET tk == task[t]
    IN /\ tk.pc = "poll"
       /\ IF ~cb.s_resp_done /\ tk.rounds < MaxRounds /\ ev # "error"
          THEN /\ cb' = [apns_recv_cb(cb, ev, body) EXCEPT !.s_post_offset = 1]
               /\ task' = [task EXCEPT ![t].rounds = @ + 1]
          ELSE /\ task' = [task EXCEPT ![t].ret = evaluate_response(cb),
                              ![t].fate = IF cb.s_resp_done THEN "response"
                                          ELSE IF tk.rounds < MaxRounds THEN "exec_error"
                                          ELSE "timeout",
                              ![t].pc = "done"]
               /\ UNCHANGED cb
       /\ UNCHANGED <<regvars, sidevars, s_apns_mutex, s_jwt_cache, s_jwt_generated_at, now, nticks,
                      entries>>

\* Where a blast task goes when its loop condition i < count is evaluated
after_loop(i, count) == IF i < count THEN "take" ELSE "exit"

\* The locals of apns_send_notification, gone when it returns
returned(tk) == [tk EXCEPT !.ret = ESP_FAIL, !.rounds = 0,
                           !.jwtgen = FALSE, !.fate = "none", !.host = ""]

\* done: cJSON_free(json_str); if (hd_open) sh2lib_free(&hd)
SendDone(t) ==
    /\ task[t].pc = "done"
    /\ task' = [task EXCEPT ![t].hd_open = FALSE, ![t].pc = "give"]
    /\ UNCHANGED <<regvars, sidevars, s_apns_mutex, s_jwt_cache, s_jwt_generated_at, now, nticks,
                   entries, cb>>

\* A return after which apns_send_task tries again when the send has failed
SendGive_retry(t) ==
    LET tk == task[t]
    IN /\ tk.pc = "give"
       /\ xSemaphoreGive(t)
       /\ task' = [task EXCEPT ![t] =
              IF tk.kind = "push"
              THEN [returned(tk) EXCEPT !.pc = IF tk.ret = ESP_OK THEN "exit" ELSE "take"]
              ELSE [returned(tk) EXCEPT
                              !.ok = IF tk.ret = ESP_OK THEN @ + 1 ELSE @,
                              !.fail = IF tk.ret = ESP_OK THEN @ ELSE @ + 1,
                              !.i = @ + 1,
                              !.pc = after_loop(tk.i + 1, tk.count)]]
       /\ UNCHANGED <<regvars, sidevars, s_jwt_cache, s_jwt_generated_at, now, nticks, entries, cb>>

\* A return that keeps the mutex when the send has failed
SendGive_leaky(t) ==
    LET tk == task[t]
    IN /\ tk.pc = "give"
       /\ IF tk.ret = ESP_OK THEN s_apns_mutex' = 0 ELSE UNCHANGED s_apns_mutex
       /\ task' = [task EXCEPT ![t] =
              IF tk.kind = "push"
              THEN [returned(tk) EXCEPT !.pc = "exit"]
              ELSE [returned(tk) EXCEPT
                              !.ok = IF tk.ret = ESP_OK THEN @ + 1 ELSE @,
                              !.fail = IF tk.ret = ESP_OK THEN @ ELSE @ + 1,
                              !.i = @ + 1,
                              !.pc = after_loop(tk.i + 1, tk.count)]]
       /\ UNCHANGED <<regvars, sidevars, s_jwt_cache, s_jwt_generated_at, now, nticks, entries, cb>>

\* A return after which the caller prunes an unregistered recipient from the
\* send list of its environment
SendGive_pruning(t) ==
    LET tk == task[t]
        ns == send_ns((IF tk.use_sandbox THEN "sandbox" ELSE "production"))
        tok == tk.sent[Len(tk.sent)]
    IN /\ tk.pc = "give"
       /\ xSemaphoreGive(t)
       /\ store' = IF tk.ret = APNS_ERR_UNREGISTERED
                   THEN [store EXCEPT ![ns] =
                            [k \in Keys |-> IF store[ns][k] = tok THEN NoTok
                                            ELSE store[ns][k]]]
                   ELSE store
       /\ task' = [task EXCEPT ![t] =
              IF tk.kind = "push"
              THEN [returned(tk) EXCEPT !.pc = "exit"]
              ELSE [returned(tk) EXCEPT
                              !.ok = IF tk.ret = ESP_OK THEN @ + 1 ELSE @,
                              !.fail = IF tk.ret = ESP_OK THEN @ ELSE @ + 1,
                              !.i = @ + 1,
                              !.pc = after_loop(tk.i + 1, tk.count)]]
       /\ UNCHANGED <<last, moved, nreq, sidevars, s_jwt_cache, s_jwt_generated_at, now,
                      nticks, entries, cb>>

\* xSemaphoreGive(s_apns_mutex); return ret.  The caller logs the result;
\* blast_task counts it and moves to the next entry.
SendGive(t) ==
    LET tk == task[t]
    IN /\ tk.pc = "give"
       /\ xSemaphoreGive(t)
       /\ task' = [task EXCEPT ![t] =
              IF tk.kind = "push"
              THEN [returned(tk) EXCEPT !.pc = "exit"]
              ELSE [returned(tk) EXCEPT
                              !.ok = IF tk.ret = ESP_OK THEN @ + 1 ELSE @,
                              !.fail = IF tk.ret = ESP_OK THEN @ ELSE @ + 1,
                              !.i = @ + 1,
                              !.pc = after_loop(tk.i + 1, tk.count)]]
       /\ UNCHANGED <<regvars, sidevars, s_jwt_cache, s_jwt_generated_at, now, nticks, entries, cb>>

(***************************************************************************)
(* api_server.c: blast_task's enumeration of the send list                 *)
(***************************************************************************)
\* Position in KeySeq of the next entry of namespace ns after pos, 0 if none
next_entry(s, ns, pos) ==
    LET later == {p \in 1 .. Len(KeySeq) : p > pos /\ s[ns][KeySeq[p]] # NoTok}
    IN IF later = {} THEN 0 ELSE CHOOSE p \in later : \A q \in later : p <= q

server_type_of(use_sandbox) == IF use_sandbox THEN "sandbox" ELSE "production"

\* One iteration of the loop of ns_list_tagged, called by
\* token_store_send_list_type with max = TOKEN_MAX_ENTRIES, or the loop's exit
BlastList(t) ==
    LET tk == task[t]
        srv == server_type_of(tk.use_sandbox)
        ns == send_ns(srv)
        p == next_entry(store, ns, tk.pos)
    IN /\ tk.pc = "list"
       /\ IF p # 0 /\ tk.count < TOKEN_MAX_ENTRIES
          THEN LET key == KeySeq[p]
                   g == ns_get(store, ns, key, TOKEN_LEN, FALSE)
               IN /\ entries' = [entries EXCEPT ![tk.count + 1] =
                          [ip |-> key, server_type |-> srv,
                           token |-> IF g.ret = ESP_OK THEN g.out ELSE @.token]]
                  /\ task' = [task EXCEPT ![t].pos = p,
                          ![t].count = IF g.ret = ESP_OK THEN @ + 1 ELSE @,
                          ![t].enumd = IF g.ret = ESP_OK THEN Append(@, g.out) ELSE @]
          ELSE /\ task' = [task EXCEPT ![t].pc = after_loop(0, tk.count)]
               /\ UNCHANGED entries
       /\ UNCHANGED <<regvars, sidevars, s_apns_mutex, s_jwt_cache, s_jwt_generated_at, now, nticks, cb>>

(***************************************************************************)
(* api_server.c: POST /push and POST /blast                                *)
(***************************************************************************)
\* What the "server_type" item of a request body can be: a string, no item
\* at all (""), or a value that is no string
JsonValues == ReqServerTypes \cup {"Production", "(number)"}

\* cJSON_GetStringValue: NULL unless the item exists and is a string
cJSON_GetStringValue(item) == IF item \in {"", "(number)"} THEN "NULL" ELSE item

\* A parse that compares without regard to case
parse_server_type_nocase(item) ==
    ~(cJSON_GetStringValue(item) \in {"production", "Production"})

\* parse_server_type: TRUE = sandbox
parse_server_type(item) ==
    LET srv == cJSON_GetStringValue(item)
    IN ~(srv # "NULL" /\ srv = "production")

FreeSlots == {t \in TaskIds : task[t].kind = "none"}

\* The response of a handler that creates a task
spawn_response(auth, valid, created) ==
    IF ~auth THEN "unauthorized"
    ELSE IF ~valid THEN "bad_request"
    ELSE IF ~created THEN "error"
    ELSE "queued"

\* Bookkeeping common to push_handler and blast_handler.  valid: the required
\* fields are present; created: calloc and xTaskCreate succeed.
Spawned(op, auth, valid, created, new) ==
    /\ FreeSlots # {}
    /\ LET t == CHOOSE x \in FreeSlots : \A y \in FreeSlots : x <= y
           resp == spawn_response(auth, valid, created)
       IN /\ task' = IF resp = "queued" THEN [task EXCEPT ![t] = new] ELSE task
          /\ last' = [NoRequest EXCEPT !.op = op, !.auth = auth, !.resp = resp]
    /\ moved' = [ip |-> NoTok, pre |-> EmptyStore]
    /\ UNCHANGED <<store, nreq, sidevars, s_apns_mutex, s_jwt_cache, s_jwt_generated_at, now,
                   nticks, entries, cb>>

\* apns_send_task calls apns_send_notification at once
push_handler(auth, valid, created, srv, device_token) ==
    Spawned("push", auth, valid, created,
            [NoTask EXCEPT !.kind = "push", !.pc = "take",
                           !.use_sandbox = parse_server_type(srv),
                           !.device_token = device_token])

\* blast_task starts by enumerating the send list of its server type
blast_handler(auth, valid, created, srv) ==
    Spawned("blast", auth, valid, created,
            [NoTask EXCEPT !.kind = "blast", !.pc = "list",
                           !.use_sandbox = parse_server_type(srv)])

(***************************************************************************)
(* api_server.c: the heap context (push_params_t / blast_params_t) of a    *)
(* /push or /blast request, from calloc in the handler to free, with the   *)
(* handler and the tasks taking their steps in any order                   *)
(***************************************************************************)
\* The contexts that can be in use at a time, one per background task
CtxIds == TaskIds

\* A context that has not been allocated.  sends counts the calls of
\* apns_send_notification made with it, frees the calls of free(p), stale
\* is set by a read of p after free(p).
NoCtx == [state |-> "none", kind |-> "none", pc |-> "none", left |-> 0, sends |-> 0,
          frees |-> 0, freed_by |-> "none", stale |-> FALSE, resp |-> "none"]

\* No request yet: next numbers the requests, h is the context of the request
\* the server task is handling (0 when none), hpc the handler's position
NoHeap == [ctx |-> [c \in CtxIds |-> NoCtx], next |-> 1, h |-> 0, hpc |-> "idle"]

\* The contexts calloc can hand out: never allocated, or freed with its task
\* gone
Unused == {c \in CtxIds : /\ heap.ctx[c].state \in {"none", "freed"}
                          /\ heap.ctx[c].pc \in {"none", "deleted"}}

\* A read of *p: stale when p has been freed
read(x) == [x EXCEPT !.stale = x.stale \/ x.state = "freed"]

\* free(p)
free(x, by) == [x EXCEPT !.state = "freed", !.frees = x.frees + 1, !.freed_by = by]

\* The other variables are left as they are by the steps on the heap
HeapFrame ==
    UNCHANGED <<regvars, sig, lock, post, reg, boot, task, s_apns_mutex, s_jwt_cache,
                s_jwt_generated_at, now, nticks, entries, cb>>

\* push_handler / blast_handler up to xTaskCreate: calloc (NULL: the answer
\* is 500 "OOM"), the fields are filled in and p is read by ESP_LOGI
HeapCalloc(kind, oom) ==
    /\ heap.hpc = "idle"
    /\ heap.next <= MaxRequests
    /\ Unused # {}
    /\ LET c == CHOOSE x \in Unused : \A y \in Unused : x <= y
       IN heap' = IF oom
                  THEN [heap EXCEPT !.ctx[c] = [NoCtx EXCEPT !.kind = kind, !.resp = "error"],
                                    !.next = heap.next + 1]
                  ELSE [heap EXCEPT !.ctx[c] = read([NoCtx EXCEPT !.state = "live",
                                                                  !.kind = kind]),
                                    !.next = heap.next + 1, !.h = c,
                                    !.hpc = "xTaskCreate"]
    /\ HeapFrame

\* xTaskCreate(apns_send_task / blast_task, ..., p, 5, NULL): on pdPASS the
\* task exists and may run at once; otherwise free(p) and 500 "Task create
\* failed"
HeapTaskCreate(created) ==
    /\ heap.hpc = "xTaskCreate"
    /\ LET c == heap.h
           x == heap.ctx[c]
       IN heap' = IF created
                  THEN [heap EXCEPT !.ctx[c].pc = IF x.kind = "blast" THEN "list" ELSE "send",
                                    !.ctx[c].left = IF x.kind = "blast" THEN 0 ELSE 1,
                                    !.hpc = "respond"]
                  ELSE [heap EXCEPT !.ctx[c] = [free(x, "handler") EXCEPT !.resp = "error"],
                                    !.h = 0, !.hpc = "idle"]
    /\ HeapFrame

\* The handler after a successful xTaskCreate reads p once more before it
\* answers
HeapRespond_logging ==
    /\ heap.hpc = "respond"
    /\ heap' = [heap EXCEPT !.ctx[heap.h] = [read(heap.ctx[heap.h]) EXCEPT !.resp = "queued"],
                            !.h = 0, !.hpc = "idle"]
    /\ HeapFrame

\* send_json_ok(req, "{\"status\":\"queued\"}"): p is not used again
HeapRespond ==
    /\ heap.hpc = "respond"
    /\ heap' = [heap EXCEPT !.ctx[heap.h].resp = "queued", !.h = 0, !.hpc = "idle"]
    /\ HeapFrame

\* blast_task: srv is taken from p->use_sandbox, then
\* token_store_send_list_type(srv, entries, &count, TOKEN_MAX_ENTRIES)
HeapTaskList(c, count) ==
    /\ heap.ctx[c].pc = "list"
    /\ heap' = [heap EXCEPT !.ctx[c] = [read(heap.ctx[c]) EXCEPT
                                            !.left = count,
                                            !.pc = IF count > 0 THEN "send" ELSE "free"]]
    /\ HeapFrame

\* apns_send_task / one round of blast_task's loop: the notification is
\* built from the fields of p and sent
HeapTaskSend(c) ==
    /\ heap.ctx[c].pc = "send"
    /\ LET x == read(heap.ctx[c])
       IN heap' = [heap EXCEPT !.ctx[c] = [x EXCEPT !.sends = x.sends + 1,
                                                    !.left = x.left - 1,
                                                    !.pc = IF x.left > 1 THEN "send"
                                                           ELSE "free"]]
    /\ HeapFrame

\* The end of apns_send_task / blast_task: the result is logged with fields
\* of p, then free(p); vTaskDelete(NULL)
HeapTaskFree(c) ==
    /\ heap.ctx[c].pc = "free"
    /\ heap' = [heap EXCEPT !.ctx[c] = [free(read(heap.ctx[c]), "task") EXCEPT
                                            !.pc = "deleted"]]
    /\ HeapFrame

(***************************************************************************)
(* api_server.c and apns.c: from the fields of a /push or /blast request   *)
(* to the JSON body posted to the gateway                                  *)
(***************************************************************************)
\* The "sound" item of a request: "" is no item
SoundItems == {"", "default", "(number)"}

\* The "custom_payload" item of a request: "" is no item; a string holds raw
\* JSON fields
CustomItems == {"", "(number)", "\"type\":\"alert\"", "\"type\":\"alert\",\"id\":42"}

\* The "badge" item of a request: -1 is no item
BadgeItems == {-1, 0, 3}

\* push_handler / blast_handler: the task parameters.  sound and
\* custom_payload are copied, and has_sound / has_custom set, only when the
\* item is a string.
task_params(title, body, badge, sound, custom) ==
    LET snd == cJSON_GetStringValue(sound)
        cst == cJSON_GetStringValue(custom)
    IN [title |-> title, body |-> body, badge |-> badge,
        sound |-> IF snd # "NULL" THEN snd ELSE "",
        custom_payload |-> IF cst # "NULL" THEN cst ELSE "",
        has_sound |-> snd # "NULL",
        has_custom |-> cst # "NULL"]

\* apns_send_task / blast_task: the apns_notification_t handed to
\* apns_send_notification
notification_of(p) ==
    [title |-> p.title, body |-> p.body, badge |-> p.badge,
     sound |-> IF p.has_sound THEN p.sound ELSE "NULL",
     custom_payload |-> IF p.has_custom THEN p.custom_payload ELSE "NULL"]

\* Step 2 of apns_send_notification: root object with "aps", "aps" with
\* "alert" (title, body), "badge" when badge >= 0 and "sound" when sound is
\* not NULL.  root and aps are the field names in the order they are added.
build_payload(n) ==
    [root |-> <<"aps">>,
     aps |-> <<"alert">> \o (IF n.badge >= 0 THEN <<"badge">> ELSE <<>>)
                        \o (IF n.sound # "NULL" THEN <<"sound">> ELSE <<>>),
     alert |-> [title |-> n.title, body |-> n.body],
     badge |-> n.badge,
     sound |-> n.sound]

NoPost == [op |-> "none", custom |-> "",
           notif |-> notification_of(task_params("", "", -1, "", "")),
           json |-> build_payload(notification_of(task_params("", "", -1, "", "")))]

\* One request from its handler to the body of the POST
Compose(op, title, body, badge, sound, custom) ==
    /\ post.op = "none"
    /\ LET n == notification_of(task_params(title, body, badge, sound, custom))
       IN post' = [op |-> op, custom |-> custom, notif |-> n, json |-> build_payload(n)]
    /\ UNCHANGED <<regvars, sig, lock, reg, boot, heap, task, s_apns_mutex, s_jwt_cache, s_jwt_generated_at,
                   now, nticks, entries, cb>>

(***************************************************************************)
(* apns.c: der_sig_to_raw                                                  *)
(***************************************************************************)
\* der[i] as the code reads it: the bytes at and after der_len are whatever
\* the buffer holds there (fill)
byte_at(der, der_len, fill, i) == IF i < der_len THEN der[i + 1] ELSE fill

\* A copy that keeps the leading 32 bytes of a longer integer
copy_slot_leading(der, der_len, fill, start, len) ==
    LET n == IF len > 32 THEN 32 ELSE len
    IN [raw |-> [i \in 1 .. 32 |->
                   IF i <= 32 - n THEN 0
                   ELSE byte_at(der, der_len, fill, start + (i - (32 - n)) - 1)],
        reads |-> start .. (start + n - 1)]

\* "Copy right-aligned into 32-byte slots": the slot after memset and memcpy
\* of the len bytes at index start, and the indices memcpy reads
copy_slot(der, der_len, fill, start, len) ==
    LET off == IF len > 32 THEN len - 32 ELSE 0
        n == IF len > 32 THEN 32 ELSE len
    IN [raw |-> [i \in 1 .. 32 |->
                   IF i <= 32 - n THEN 0
                   ELSE byte_at(der, der_len, fill, start + off + (i - (32 - n)) - 1)],
        reads |-> (start + off) .. (start + off + n - 1)]

\* The return value, raw[64] and the set of indices of der that were read
der_sig_to_raw(der, der_len, fill) ==
    LET at(i) == byte_at(der, der_len, fill, i)
        fail(reads) == [rc |-> -1, raw |-> <<>>, reads |-> reads]
    IN IF der_len < 8 THEN fail({})
       ELSE IF at(0) # 48 THEN fail({0})
       ELSE IF at(2) # 2 THEN fail({0, 2})
       ELSE LET r_len == at(3)
                r == 4
                pos == 4 + r_len
            IN IF pos >= der_len THEN fail({0, 2, 3})
               ELSE IF at(pos) # 2 THEN fail({0, 2, 3, pos})
               ELSE LET s_len == at(pos + 1)
                        s_ == pos + 2
                        cr == copy_slot(der, der_len, fill, r, r_len)
                        cs == copy_slot(der, der_len, fill, s_, s_len)
                    IN [rc |-> 0, raw |-> cr.raw \o cs.raw,
                        reads |-> {0, 2, 3, pos, pos + 1} \cup cr.reads \cup cs.reads]

\* Lengths of the integers r and s of the signatures converted
IntLens == {1, 31, 32, 33}

\* An integer of len bytes with the given first byte
IntBytes(len, lead, salt) == [i \in 1 .. len |-> IF i = 1 THEN lead ELSE salt + i]

\* What mbedtls_pk_sign writes: 30 <len> 02 <rlen> <r> 02 <slen> <s>
DerOf(r, s) == <<48, 4 + Len(r) + Len(s), 2, Len(r)>> \o r \o <<2, Len(s)>> \o s

\* The buffer with the byte at index i replaced
Patched(der, i, b) == [der EXCEPT ![i + 1] = b]

NoSig == [kind |-> "none", der |-> <<>>, der_len |-> 0, fill |-> 0, r |-> <<>>,
          s |-> <<>>, done |-> FALSE, rc |-> 0, raw |-> <<>>, reads |-> {}]

\* The buffers converted: well-formed signatures, the same truncated to every
\* shorter length, and the same with one of the three tags replaced
SigInputs ==
    LET wf == {[NoSig EXCEPT !.kind = "wellformed", !.r = r, !.s = s,
                             !.der = DerOf(r, s), !.der_len = Len(DerOf(r, s))] :
                  r \in {IntBytes(n, b, 16) : n \in IntLens, b \in {0, 129}},
                  s \in {IntBytes(n, b, 96) : n \in IntLens, b \in {0, 129}}}
        cut == UNION {{[w EXCEPT !.kind = "truncated", !.der = SubSeq(w.der, 1, n),
                                !.der_len = n, !.fill = f] :
                         n \in 0 .. (w.der_len - 1), f \in {0, 2}} : w \in wf}
        tag == {[w EXCEPT !.kind = "notag",
                          !.der = Patched(w.der, IF i = 4 THEN 4 + Len(w.r) ELSE i, 3)] :
                   w \in wf, i \in {0, 2, 4}}
    IN wf \cup cut \cup tag

\* generate_jwt's call der_sig_to_raw(sig_der, sig_der_len, sig_raw)
Convert ==
    /\ ~sig.done
    /\ sig.kind # "none"
    /\ LET c == der_sig_to_raw(sig.der, sig.der_len, sig.fill)
       IN sig' = [sig EXCEPT !.done = TRUE, !.rc = c.rc, !.raw = c.raw, !.reads = c.reads]
    /\ UNCHANGED <<regvars, task, s_apns_mutex, s_jwt_cache, s_jwt_generated_at, now,
                   nticks, entries, cb, lock, post, reg, boot, heap>>

(***************************************************************************)
(* apns.c and api_server.c: the tasks at s_apns_mutex.  The mutex keeps    *)
(* the tasks blocked on it in a list, by priority and, for equal priority, *)
(* in the order in which they blocked; all tasks here have priority 5.     *)
(* xSemaphoreGive frees the mutex and makes the first task of the list     *)
(* ready; that task then tries to take the mutex again.                    *)
(***************************************************************************)
\* Two apns_send_task and one blast_task
Callers == {1, 2, 3}

\* Calls of apns_send_notification a caller makes: blast_task one per entry
Sends(c) == IF c = 3 THEN 2 ELSE 1

NoLock == [holder |-> 0, list |-> <<>>, pc |-> [c \in Callers |-> "none"],
           left |-> [c \in Callers |-> 0], waited |-> <<>>, passed |-> {}]

\* The sequence q without c
Without(q, c) == SelectSeq(q, LAMBDA x : x # c)

\* The members of q before c, when c is in q
Before(q, c) == {q[i] : i \in {j \in 1 .. Len(q) : \E k \in 1 .. Len(q) : q[k] = c /\ j < k}}

\* xTaskCreate in push_handler and blast_handler: the task is ready
LockArrive(c) ==
    /\ lock.pc[c] = "new"
    /\ lock' = [lock EXCEPT !.pc[c] = "take"]
    /\ UNCHANGED <<regvars, sig, post, reg, boot, heap, task, s_apns_mutex, s_jwt_cache, s_jwt_generated_at, now,
                   nticks, entries, cb>>

\* xSemaphoreTake(s_apns_mutex, portMAX_DELAY) by a running task, on its call
\* or after it was made ready: it takes the free mutex, or blocks at the end
\* of the list.  waited: the tasks in the order of their calls that blocked;
\* passed: the tasks that called and blocked earlier than a task that has
\* taken the mutex, and were still waiting then.
LockTake(c) ==
    /\ lock.pc[c] = "take"
    /\ lock' = IF lock.holder = 0
               THEN [lock EXCEPT !.holder = c, !.pc[c] = "send",
                                 !.waited = Without(@, c),
                                 !.passed = @ \cup Before(lock.waited, c)]
               ELSE [lock EXCEPT !.list = Append(@, c), !.pc[c] = "blocked",
                                 !.waited = IF \E i \in 1 .. Len(@) : @[i] = c
                                            THEN @ ELSE Append(@, c)]
    /\ UNCHANGED <<regvars, sig, post, reg, boot, heap, task, s_apns_mutex, s_jwt_cache, s_jwt_generated_at, now,
                   nticks, entries, cb>>

\* xSemaphoreGive(s_apns_mutex) at the end of a send, and the return to the
\* task: the first blocked task becomes ready; blast_task calls again at once.
\* A send waits for the network many times, so every task that was ready
\* during it has run by its end.
LockGive(c) ==
    /\ lock.pc[c] = "send"
    /\ lock.holder = c
    /\ \A x \in Callers \ {c} : lock.pc[x] # "take"
    /\ lock' = [lock EXCEPT
                  !.holder = 0,
                  !.list = IF @ = <<>> THEN @ ELSE Tail(@),
                  !.left[c] = @ - 1,
                  !.pc = [x \in Callers |->
                            IF x = c THEN (IF lock.left[c] > 1 THEN "take" ELSE "exit")
                            ELSE IF lock.list # <<>> /\ x = Head(lock.list) THEN "take"
                            ELSE lock.pc[x]]]
    /\ UNCHANGED <<regvars, sig, post, reg, boot, heap, task, s_apns_mutex, s_jwt_cache, s_jwt_generated_at, now,
                   nticks, entries, cb>>

(***************************************************************************)
(* token_store.c and api_server.c: GET /tokens/send and GET /tokens/block  *)
(***************************************************************************)
RECURSIVE ns_list_loop(_, _, _, _, _, _)

\* The loop of ns_list_tagged from iterator position pos with out filled so
\* far: an entry is counted only when nvs_get_str reads its token into the
\* TOKEN_LEN bytes of out[*count].token
ns_list_loop(s, ns, server_type, max, pos, out) ==
    LET p == next_entry(s, ns, pos)
    IN IF p = 0 \/ Len(out) >= max THEN out
       ELSE LET g == ns_get(s, ns, KeySeq[p], TOKEN_LEN, FALSE)
            IN ns_list_loop(s, ns, server_type, max, p,
                            IF g.ret = ESP_OK
                            THEN Append(out, [ip |-> KeySeq[p], token |-> g.out,
                                              server_type |-> server_type])
                            ELSE out)

ns_list_tagged(s, ns, server_type, max) == ns_list_loop(s, ns, server_type, max, 0, <<>>)

token_store_send_list(s, max) ==
    LET l1 == ns_list_tagged(s, NS_SEND_S, "sandbox", max)
        l2 == IF Len(l1) < max
              THEN ns_list_tagged(s, NS_SEND_P, "production", max - Len(l1))
              ELSE <<>>
    IN l1 \o l2

token_store_send_list_type(s, server_type, max) ==
    ns_list_tagged(s, send_ns(server_type), server_type, max)

token_store_block_list(s, max) ==
    LET l1 == ns_list_tagged(s, NS_BLOCK_S, "sandbox", max)
        l2 == IF Len(l1) < max
              THEN ns_list_tagged(s, NS_BLOCK_P, "production", max - Len(l1))
              ELSE <<>>
    IN l1 \o l2

\* Bookkeeping of the two GET handlers: the entries sent by send_token_list
\* are kept in last.out
Listed(op, auth, list) ==
    /\ nreq' = nreq + 1
    /\ last' = [NoRequest EXCEPT !.op = op, !.auth = auth, !.pre = store,
                                 !.resp = IF auth THEN "list" ELSE "unauthorized",
                                 !.out = IF auth THEN list ELSE <<>>]
    /\ moved' = [ip |-> NoTok, pre |-> EmptyStore]
    /\ UNCHANGED <<store, sendvars>>

tokens_send_get_handler(auth) ==
    Listed("send_get", auth, token_store_send_list(store, TOKEN_MAX_ENTRIES))

tokens_block_get_handler(auth) ==
    Listed("block_get", auth, token_store_block_list(store, TOKEN_MAX_ENTRIES))

(***************************************************************************)
(* Specifications                                                          *)
(***************************************************************************)
\* The store one accepted registration later
Reg(s, server_type, ip, token) == register(s, server_type, ip, token, {}).st

\* Send lists as four registrations of an earlier session leave them
Provisioned ==
    Reg(Reg(Reg(Reg(EmptyStore, "sandbox", "10.0.0.1", "tokA"),
                "sandbox", "10.0.0.2", "tokB"),
            "sandbox", "10.0.0.3", "tokA"),
        "production", "10.0.0.1", "tokB")

\* State after app_main: NVS as earlier sessions left it, no task, mutex
\* created, no credential, static buffers zeroed
InitSend ==
    /\ task = [t \in TaskIds |-> NoTask]
    /\ s_apns_mutex = 0
    /\ s_jwt_cache = 0
    /\ s_jwt_generated_at = 0
    /\ now = 1
    /\ nticks = 0
    /\ entries = [n \in 1 .. TOKEN_MAX_ENTRIES |-> ZeroEntry]
    /\ cb = FreshContext
    /\ sig = NoSig
    /\ lock = NoLock
    /\ post = NoPost
    /\ reg = NoReg
    /\ boot = Booted
    /\ heap = NoHeap

InitLog ==
    /\ last = NoRequest
    /\ moved = [ip |-> NoTok, pre |-> EmptyStore]
    /\ nreq = 0

Init == store \in {EmptyStore, Provisioned} /\ InitLog /\ InitSend

\* Time that can have passed between two readings of the clock
Elapsed == {0, JWT_VALID_SECONDS - 1, JWT_VALID_SECONDS}

\* The steps of apns_send_notification that task t can take
SendStep(t) ==
    \/ \E d \in Elapsed, gen_ok \in BOOLEAN, json_ok \in BOOLEAN :
          SendPrepare(t, d, gen_ok, json_ok)
    \/ \E connected \in BOOLEAN : SendConnect(t, connected)
    \/ \E submitted \in BOOLEAN : SendSubmit(t, submitted)
    \/ \E ev \in ExecEvents, body \in ResponseBodies : SendPoll(t, ev, body)
    \/ SendDone(t)
    \/ SendGive(t)

TaskStep ==
    \/ \E t \in TaskIds : BlastList(t)
    \/ \E t \in TaskIds : SendTake(t)
    \/ \E t \in TaskIds, d \in Elapsed, gen_ok \in BOOLEAN, json_ok \in BOOLEAN :
          SendPrepare(t, d, gen_ok, json_ok)
    \/ \E t \in TaskIds, connected \in BOOLEAN : SendConnect(t, connected)
    \/ \E t \in TaskIds, submitted \in BOOLEAN : SendSubmit(t, submitted)
    \/ \E t \in TaskIds, ev \in ExecEvents, body \in ResponseBodies : SendPoll(t, ev, body)
    \/ \E t \in TaskIds : SendDone(t)
    \/ \E t \in TaskIds : SendGive(t)

\* The server_type items of the send requests of a run: the production
\* string, a string that differs from it in case only, and no item
SendServerTypes == {"production", "Production", ""}

DispatchRequest ==
    \/ \E a \in BOOLEAN, v \in BOOLEAN, c \in BOOLEAN, srv \in SendServerTypes,
          tok \in {"tokB"} : push_handler(a, v, c, srv, tok)
    \/ \E a \in BOOLEAN, v \in BOOLEAN, c \in BOOLEAN, srv \in SendServerTypes :
          blast_handler(a, v, c, srv)

Next ==
    \/ DispatchRequest
    \/ TaskStep

Spec == Init /\ [][Next]_vars

\* The registry alone, from factory-fresh NVS
InitRegistry == store = EmptyStore /\ InitLog /\ InitSend

NextRegistry ==
    nreq < MaxRequests /\ RegistryRequest(BOOLEAN, ReqServerTypes, ReqKeys, Tokens, NoFaults)

SpecRegistry == InitRegistry /\ [][NextRegistry]_vars

\* The registry and one broadcast: registry requests on one key, in any order
\* with a POST /blast and the steps of its task
NextService ==
    \/ nreq < MaxRequests
          /\ RegistryRequest({TRUE}, ServerTypes, {"10.0.0.1"}, {"tokA"}, NoFaults)
    \/ FreeSlots = TaskIds
          /\ \E srv \in ServerTypes : blast_handler(TRUE, TRUE, TRUE, srv)
    \/ TaskStep

SpecService == InitRegistry /\ [][NextService]_vars

\* The registry with its two listings
NextList ==
    \/ nreq < MaxRequests
          /\ RegistryRequest({TRUE}, ServerTypes, ReqKeys, Tokens, NoFaults)
    \/ nreq < MaxRequests /\ \E a \in BOOLEAN : tokens_send_get_handler(a)
    \/ nreq < MaxRequests /\ \E a \in BOOLEAN : tokens_block_get_handler(a)

SpecList == InitRegistry /\ [][NextList]_vars

\* Signature conversion alone: one buffer, converted once
InitDer ==
    /\ store = EmptyStore
    /\ InitLog
    /\ task = [t \in TaskIds |-> NoTask]
    /\ s_apns_mutex = 0
    /\ s_jwt_cache = 0
    /\ s_jwt_generated_at = 0
    /\ now = 1
    /\ nticks = 0
    /\ entries = [n \in 1 .. TOKEN_MAX_ENTRIES |-> ZeroEntry]
    /\ cb = FreshContext
    /\ sig \in SigInputs
    /\ lock = NoLock
    /\ post = NoPost
    /\ reg = NoReg
    /\ boot = Booted
    /\ heap = NoHeap

SpecDer == InitDer /\ [][Convert]_vars

\* Well-formed send requests and the tasks they create, each task scheduled
\* again and again while it is ready and each transport call returning
InitLive == store = Provisioned /\ InitLog /\ InitSend

\* One POST /push and one POST /blast, in either order
NextLive ==
    \/ (\A t \in TaskIds : task[t].kind # "push")
          /\ \E srv \in SendServerTypes : push_handler(TRUE, TRUE, TRUE, srv, "tokB")
    \/ (\A t \in TaskIds : task[t].kind # "blast")
          /\ \E srv \in SendServerTypes : blast_handler(TRUE, TRUE, TRUE, srv)
    \/ TaskStep

\* The steps of task t: a ready task of priority 5 gets its time slices
Scheduled(t) == BlastList(t) \/ SendTake(t) \/ SendStep(t)

SpecLive == InitLive /\ [][NextLive]_vars /\ \A t \in TaskIds : WF_vars(Scheduled(t))

\* Three tasks at the mutex
InitLock ==
    /\ store = EmptyStore
    /\ InitLog
    /\ task = [t \in TaskIds |-> NoTask]
    /\ s_apns_mutex = 0
    /\ s_jwt_cache = 0
    /\ s_jwt_generated_at = 0
    /\ now = 1
    /\ nticks = 0
    /\ entries = [n \in 1 .. TOKEN_MAX_ENTRIES |-> ZeroEntry]
    /\ cb = FreshContext
    /\ sig = NoSig
    /\ lock = [NoLock EXCEPT !.pc = [c \in Callers |-> "new"],
                             !.left = [c \in Callers |-> Sends(c)]]
    /\ post = NoPost
    /\ reg = NoReg
    /\ boot = Booted
    /\ heap = NoHeap

NextLock ==
    \/ \E c \in Callers : LockArrive(c)
    \/ \E c \in Callers : LockTake(c)
    \/ \E c \in Callers : LockGive(c)

SpecLock == InitLock /\ [][NextLock]_vars

\* The ten endpoints registered by api_server_start, by method and URI
Endpoints ==
    {"POST /push", "POST /token", "GET /tokens/send", "DELETE /tokens/send",
     "GET /tokens/block", "POST /tokens/block", "DELETE /tokens/block",
     "POST /tokens/move-to-block", "POST /tokens/move-to-send", "POST /blast"}

\* A request to endpoint e with Authorization header h, on one key
Endpoint(e, h) ==
    LET a == auth_check(h)
        ip == "10.0.0.1"
    IN \/ e = "POST /push" /\ push_handler(a, TRUE, TRUE, "", "tokB")
       \/ e = "POST /blast" /\ blast_handler(a, TRUE, TRUE, "")
       \/ e = "GET /tokens/send" /\ nreq < MaxRequests /\ tokens_send_get_handler(a)
       \/ e = "GET /tokens/block" /\ nreq < MaxRequests /\ tokens_block_get_handler(a)
       \/ e = "POST /token" /\ nreq < MaxRequests
             /\ \E srv \in ServerTypes : token_register_handler(a, srv, ip, "tokA", {})
       \/ e = "POST /tokens/block" /\ nreq < MaxRequests
             /\ tokens_block_post_handler(a, ip, "tokA", {})
       \/ e = "DELETE /tokens/send" /\ nreq < MaxRequests
             /\ tokens_send_del_handler(a, ip, {})
       \/ e = "DELETE /tokens/block" /\ nreq < MaxRequests
             /\ tokens_block_del_handler(a, ip, {})
       \/ e = "POST /tokens/move-to-block" /\ nreq < MaxRequests
             /\ move_to_block_handler(a, ip, {})
       \/ e = "POST /tokens/move-to-send" /\ nreq < MaxRequests
             /\ move_to_send_handler(a, ip, {})

\* Requests with any header to any endpoint
NextApi == \E e \in Endpoints, h \in Headers : Endpoint(e, h)

SpecApi == InitRegistry /\ [][NextApi]_vars

\* Registrations and move-to-block requests handled by two tasks
NextRace ==
    \/ \E srv \in ServerTypes, ip \in ReqKeys, tok \in {"tokA", "tokB"} :
          RegisterBegin(srv, ip, tok)
    \/ RegisterGuard1
    \/ RegisterGuard2
    \/ RegisterWrite
    \/ \E ip \in ReqKeys : ConcurrentMove(ip)

SpecRace == InitRegistry /\ [][NextRace]_vars

\* The server task handles one request at a time; the tasks it has created
\* run beside it
NextHeap ==
    \/ \E kind \in {"push", "blast"}, oom \in BOOLEAN : HeapCalloc(kind, oom)
    \/ \E created \in BOOLEAN : HeapTaskCreate(created)
    \/ HeapRespond
    \/ \E c \in CtxIds, count \in 0 .. TOKEN_MAX_ENTRIES : HeapTaskList(c, count)
    \/ \E c \in CtxIds : HeapTaskSend(c)
    \/ \E c \in CtxIds : HeapTaskFree(c)

SpecHeap == InitRegistry /\ [][NextHeap]_vars

\* From power-on: app_main, and once the server runs, registrations, a push
\* and the steps of its task
InitBoot ==
    /\ store = EmptyStore
    /\ InitLog
    /\ task = [t \in TaskIds |-> NoTask]
    /\ s_apns_mutex = 0
    /\ s_jwt_cache = 0
    /\ s_jwt_generated_at = 0
    /\ now = 1
    /\ nticks = 0
    /\ entries = [n \in 1 .. TOKEN_MAX_ENTRIES |-> ZeroEntry]
    /\ cb = FreshContext
    /\ sig = NoSig
    /\ lock = NoLock
    /\ post = NoPost
    /\ reg = NoReg
    /\ boot = PowerOn
    /\ heap = NoHeap

NextBoot ==
    \/ \E ret \in NvsInitResults, erase_ok \in BOOLEAN, ret2 \in NvsInitResults :
          BootNvs(ret, erase_ok, ret2)
    \/ \E n \in 0 .. 4 : BootTokenStore(n)
    \/ \E drops \in 0 .. WIFI_MAX_RETRY + 1 : BootWifi(drops)
    \/ \E synced \in BOOLEAN : BootSyncTime(synced)
    \/ \E created \in BOOLEAN : BootApnsInit(created)
    \/ \E started \in BOOLEAN : BootServerStart(started)
    \/ BootRestart
    \/ boot.server /\ nreq < MaxRequests
          /\ \E srv \in ServerTypes : token_register_handler(TRUE, srv, "10.0.0.1", "tokA", {})
    \/ boot.server /\ FreeSlots = TaskIds /\ push_handler(TRUE, TRUE, TRUE, "", "tokB")
    \/ boot.server /\ \E t \in TaskIds : SendTake(t)
    \/ boot.server /\ \E t \in TaskIds : SendStep(t)

SpecBoot == InitBoot /\ [][NextBoot]_vars

\* The bodies built for single requests
NextPayload ==
    \E op \in {"push", "blast"}, title \in {"Hello", "Hi"}, body \in {"World", "There"},
       badge \in BadgeItems, sound \in SoundItems, custom \in CustomItems :
        Compose(op, title, body, badge, sound, custom)

SpecPayload == InitRegistry /\ [][NextPayload]_vars

\* The registry on one key, on a flash whose calls may fail
NextFaulty ==
    nreq < MaxRequests
        /\ RegistryRequest({TRUE}, ServerTypes, {"10.0.0.1"}, {"tokA"}, Faults)

SpecFaulty == InitRegistry /\ [][NextFaulty]_vars

(***************************************************************************)
(* Properties                                                              *)
(***************************************************************************)
\* The namespaces of an environment, as the specification names them
Allow(e) == IF e = "production" THEN NS_SEND_P ELSE NS_SEND_S

Deny(e) == IF e = "production" THEN NS_BLOCK_P ELSE NS_BLOCK_S

InCritical == {t \in TaskIds : task[t].pc \in CriticalPcs}

C2_FailureIsNotSuccess ==
    \A t \in TaskIds :
        (task[t].pc = "done" /\ task[t].fate \in {"connect_fail", "submit_fail"})
            => task[t].ret # ESP_OK

\* C3: after any sequence of registry requests on working storage no
\* (environment, IP) key is in the send list and in the block list at once.
C3_Exclusive ==
    \A e \in ServerTypes, k \in Keys :
        ~(store[Allow(e)][k] # NoTok /\ store[Deny(e)][k] # NoTok)

\* The last request was an authorised register with a known server type
Registered == last.op = "register" /\ last.auth /\ last.server_type \in ServerTypes

\* C4: a register whose key is in the block list of its environment answers
\* "blocked" and leaves the send-list entry of the key as it was.
C4_BlockedRegister ==
    (Registered /\ last.pre[Deny(last.server_type)][last.ip] # NoTok)
        => /\ last.resp = "blocked"
           /\ store[Allow(last.server_type)][last.ip]
                  = last.pre[Allow(last.server_type)][last.ip]

\* C5: a register whose key is not blocked and whose token equals the one in
\* the send list answers "no_change" and writes nothing.
C5_UnchangedRegister ==
    (/\ Registered
     /\ last.pre[Deny(last.server_type)][last.ip] = NoTok
     /\ last.pre[Allow(last.server_type)][last.ip] = last.token)
        => /\ last.resp = "no_change"
           /\ store = last.pre

\* C6: a register whose key is not blocked and whose token differs from the
\* stored one (or no token is stored) answers "ok", stores the token under
\* the key in the send list of its environment and changes nothing else.
C6_UpsertRegister ==
    (/\ Registered
     /\ last.pre[Deny(last.server_type)][last.ip] = NoTok
     /\ last.pre[Allow(last.server_type)][last.ip] # last.token)
        => /\ last.resp = "ok"
           /\ store[Allow(last.server_type)][last.ip] = last.token
           /\ \A ns \in Namespaces, k \in Keys :
                  (ns # Allow(last.server_type) \/ k # last.ip)
                      => store[ns][k] = last.pre[ns][k]

\* A production register has replaced the token of a key that the sandbox
\* list holds as well
C6_Witness ==
    /\ Registered
    /\ last.server_type = "production"
    /\ last.resp = "ok"
    /\ last.pre[NS_SEND_P][last.ip] \notin {NoTok, last.token}
    /\ last.pre[NS_SEND_S][last.ip] # NoTok
    /\ store[NS_SEND_P][last.ip] = last.token

\* The last two requests were move_to_block(k) and then move_to_send(k)
RoundTrip ==
    /\ last.op = "move_to_send"
    /\ last.auth
    /\ moved.ip = last.ip

MoveSrc(e) == IF last.op = "move_to_block" THEN Allow(e) ELSE Deny(e)

MoveDst(e) == IF last.op = "move_to_block" THEN Deny(e) ELSE Allow(e)

\* C8: a move transfers the key in each environment whose source list holds
\* it and leaves the other environment alone; it answers success iff some
\* environment held the key in the source list, and not-found changes nothing.
C8_MovePerEnvironment ==
    (last.op \in {"move_to_block", "move_to_send"} /\ last.auth)
        => /\ \A e \in ServerTypes :
                  IF last.pre[MoveSrc(e)][last.ip] # NoTok
                  THEN /\ store[MoveDst(e)][last.ip] = last.pre[MoveSrc(e)][last.ip]
                       /\ store[MoveSrc(e)][last.ip] = NoTok
                  ELSE /\ store[MoveDst(e)][last.ip] = last.pre[MoveDst(e)][last.ip]
                       /\ store[MoveSrc(e)][last.ip] = NoTok
           /\ (last.resp = "ok")
                  <=> \E e \in ServerTypes : last.pre[MoveSrc(e)][last.ip] # NoTok
           /\ last.resp = "not_found" => store = last.pre

\* The tokens of the send list of environment e in enumeration order
RECURSIVE Records(_, _)
Records(e, pos) ==
    IF pos > Len(KeySeq) THEN <<>>
    ELSE IF store[Allow(e)][KeySeq[pos]] = NoTok THEN Records(e, pos + 1)
    ELSE <<store[Allow(e)][KeySeq[pos]]>> \o Records(e, pos + 1)

\* The first min(n, TOKEN_MAX_ENTRIES) of them
Recipients(e) ==
    LET all == Records(e, 1)
    IN SubSeq(all, 1, IF Len(all) < TOKEN_MAX_ENTRIES THEN Len(all) ELSE TOKEN_MAX_ENTRIES)

Blasts == {t \in TaskIds : task[t].kind = "blast"}

\* C9: a finished broadcast has called the protocol client once for each of
\* the first min(n, TOKEN_MAX_ENTRIES) records of its send list, in
\* enumeration order, and its ok and fail counts add up to that number.
C9_BlastCoversList ==
    \A t \in Blasts :
        task[t].pc = "exit"
            => /\ task[t].sent = Recipients(server_type_of(task[t].use_sandbox))
               /\ task[t].ok + task[t].fail = Len(task[t].sent)

\* C10: whatever other broadcasts run, the j-th send of a broadcast goes to
\* the j-th record that this broadcast enumerated.
C10_OwnRecords ==
    \A t \in Blasts :
        \A j \in 1 .. Len(task[t].sent) :
            /\ j <= Len(task[t].enumd)
            /\ task[t].sent[j] = task[t].enumd[j]

\* C11: every record a broadcast enumerates has, at the moment it is
\* enumerated, no entry under its (server type, IP) in the block list, so no
\* broadcast sends to a blocked key, whatever registry requests came before.
C11_NeverToBlocked ==
    [][\A t \in TaskIds :
          Len(task'[t].enumd) > Len(task[t].enumd)
              => store[Deny(server_type_of(task[t].use_sandbox))][KeySeq[task'[t].pos]]
                     = NoTok]_vars

\* Task t performs the credential step of a send in this step; the send
\* starts when it reads the clock, which then shows now'
CredentialStep(t) == task[t].pc = "jwt" /\ task'[t].pc # "jwt"

\* The recorded age of the cached credential at time t_now
CredentialAge(t_now) == t_now - s_jwt_generated_at

\* C12: a send that starts less than JWT_VALID_SECONDS after the generation
\* of the cached credential leaves the credential and its timestamp as they
\* are, so it uses the same credential as the sends before it, and it does
\* not call generate_jwt.
C12_CacheHit ==
    [][\A t \in TaskIds :
          (/\ CredentialStep(t)
           /\ s_jwt_generated_at # 0
           /\ CredentialAge(now') < JWT_VALID_SECONDS)
              => /\ s_jwt_cache' = s_jwt_cache
                 /\ s_jwt_generated_at' = s_jwt_generated_at
                 /\ ~task'[t].jwtgen
                 /\ task'[t].fate # "jwt_fail"]_vars

\* A send has gone on to connect with a credential generated 3299 s earlier
C12_Witness ==
    \E t \in TaskIds :
        /\ task[t].pc = "connect"
        /\ ~task[t].jwtgen
        /\ s_jwt_generated_at # 0
        /\ CredentialAge(now) = JWT_VALID_SECONDS - 1
        /\ s_jwt_cache = s_jwt_generated_at

\* The tasks that are between the credential step and the end of the exchange
Transmitting == {t \in TaskIds : task[t].pc \in {"connect", "submit", "poll"}}

\* C13: no credential exists before the first send; a send calls generate_jwt
\* if and only if none was generated yet or the recorded age is
\* JWT_VALID_SECONDS or more when the send starts; the credential changes in no
\* other step; and a request is only ever transmitted with a credential whose
\* recorded age is below JWT_VALID_SECONDS.
C13_LazyOnExpiry ==
    /\ []((\A t \in TaskIds : task[t].sent = <<>>)
             => (s_jwt_cache = 0 /\ s_jwt_generated_at = 0))
    /\ [](\A t \in Transmitting :
             s_jwt_generated_at # 0 /\ CredentialAge(now) < JWT_VALID_SECONDS)
    /\ [][/\ \A t \in TaskIds :
                CredentialStep(t)
                    => ((task'[t].jwtgen \/ task'[t].fate = "jwt_fail")
                            <=> (s_jwt_generated_at = 0
                                    \/ CredentialAge(now') >= JWT_VALID_SECONDS))
          /\ \/ \E t \in TaskIds :
                   /\ CredentialStep(t)
                   /\ task'[t].jwtgen
                   /\ s_jwt_generated_at' = now'
             \/ UNCHANGED <<s_jwt_cache, s_jwt_generated_at>>]_vars

\* A send has regenerated the credential exactly JWT_VALID_SECONDS after the
\* previous generation
C13_Witness ==
    \E t \in TaskIds :
        /\ task[t].pc = "connect"
        /\ task[t].jwtgen
        /\ s_jwt_generated_at = now
        /\ now = 1 + JWT_VALID_SECONDS
        /\ \E u \in TaskIds : u # t /\ task[u].sent # <<>>

\* The ends of a send after its credential step that are transport failures
\* or answers of the gateway
TransportFates == {"connect_fail", "submit_fail", "timeout", "exec_error", "response"}

\* C14: from the credential step of a send to its return, whatever the
\* connection, the submission, the polling or the gateway's answer do, no step
\* changes the cached credential or its timestamp; at the end of a failed send
\* the cache holds a credential younger than JWT_VALID_SECONDS, so the next
\* send within the window is a cache hit.
C14_FailureKeepsCredential ==
    /\ [](\A t \in TaskIds :
             (task[t].pc = "done" /\ task[t].fate \in TransportFates)
                 => /\ s_jwt_generated_at # 0
                    /\ s_jwt_cache = s_jwt_generated_at
                    /\ CredentialAge(now) < JWT_VALID_SECONDS
                    /\ task[t].jwtgen => s_jwt_generated_at = now)
    /\ [][(\E t \in TaskIds : task[t].pc \in CriticalPcs \ {"jwt"})
              => UNCHANGED <<s_jwt_cache, s_jwt_generated_at>>]_vars

\* The first send of a lone broadcast generated the credential and failed;
\* its second send, 3299 s later, goes on with the cached credential
C14_Witness ==
    \E t \in TaskIds :
        /\ task[t].kind = "blast"
        /\ \A u \in TaskIds \ {t} : task[u].kind = "none"
        /\ task[t].i = 1
        /\ task[t].fail = 1
        /\ task[t].pc = "connect"
        /\ ~task[t].jwtgen
        /\ s_jwt_generated_at = 1
        /\ now = JWT_VALID_SECONDS

\* Whether a response body contains the marker apns_send_notification looks for
HasMarker(body) == body \in {"Unregistered"}

\* The sends that have left the polling loop and hold their result
Evaluated ==
    {t \in TaskIds : task[t].pc = "done"
                        /\ task[t].fate \in {"response", "exec_error", "timeout"}}

\* C15: after the polling loop the result is decided by (s_resp_done,
\* s_resp_len, marker in s_resp_body) alone: not completed gives ESP_FAIL;
\* completed with an empty body gives ESP_OK; completed with a body that holds
\* "Unregistered" gives APNS_ERR_UNREGISTERED; completed with any other body
\* gives ESP_FAIL.
C15_Outcome ==
    \A t \in Evaluated :
        /\ ~cb.s_resp_done => task[t].ret = ESP_FAIL
        /\ (cb.s_resp_done /\ cb.s_resp_len = 0) => task[t].ret = ESP_OK
        /\ (cb.s_resp_done /\ cb.s_resp_len > 0 /\ HasMarker(cb.s_resp_body))
               => task[t].ret = APNS_ERR_UNREGISTERED
        /\ (cb.s_resp_done /\ cb.s_resp_len > 0 /\ ~HasMarker(cb.s_resp_body))
               => task[t].ret = ESP_FAIL
        /\ task[t].ret \in {ESP_OK, ESP_FAIL, APNS_ERR_UNREGISTERED}

\* A send has ended with the gateway's "Unregistered" body
C15_Witness ==
    \E t \in Evaluated :
        /\ cb.s_resp_done
        /\ cb.s_resp_body = "Unregistered"
        /\ task[t].ret = APNS_ERR_UNREGISTERED

\* An upper bound on the steps a send has left before it returns
StepsLeft(tk) ==
    CASE tk.pc = "jwt" -> MaxRounds + 6
      [] tk.pc = "connect" -> MaxRounds + 5
      [] tk.pc = "submit" -> MaxRounds + 4
      [] tk.pc = "poll" -> (MaxRounds - tk.rounds) + 3
      [] tk.pc = "done" -> 2
      [] tk.pc = "give" -> 1
      [] OTHER -> 0

\* C16: the polling loop makes at most MaxRounds rounds; a loop left without a
\* completed response (bound reached or sh2lib_execute error) gives ESP_FAIL;
\* a task that holds the lock can always take a step and each of its steps
\* brings the return nearer, so the send terminates; and after the return the
\* task holds neither the lock nor a connection.
C16_PollingTerminates ==
    /\ [](\A t \in TaskIds :
             /\ task[t].rounds <= MaxRounds
             /\ (task[t].pc \in {"done", "give"}
                    /\ task[t].fate \in {"timeout", "exec_error"})
                   => (task[t].ret = ESP_FAIL /\ ~cb.s_resp_done)
             /\ task[t].pc \in CriticalPcs => ENABLED SendStep(t)
             /\ task[t].pc \notin CriticalPcs
                   => (s_apns_mutex # t /\ ~task[t].hd_open))
    /\ [][\A t \in TaskIds :
             (task[t].pc \in CriticalPcs /\ task'[t] # task[t])
                 => StepsLeft(task'[t]) < StepsLeft(task[t])]_vars

\* A send has used up all rounds without a completed response and is about
\* to free its connection
C16_Witness ==
    \E t \in TaskIds :
        /\ task[t].pc = "done"
        /\ task[t].fate = "timeout"
        /\ task[t].rounds = MaxRounds
        /\ task[t].hd_open
        /\ s_apns_mutex = t

\* C17: a connection exists only while its task holds the lock and is gone
\* when the task reaches the give; the lock is held from the take to the give
\* on every path (credential, body, connect or submit failure, timeout, any
\* response) and leaves its holder in one step only, the give that returns;
\* a call with a NULL argument returns without taking the lock.
C17_FreeThenGiveOnce ==
    /\ [](\A t \in TaskIds :
             /\ task[t].hd_open
                   => (s_apns_mutex = t /\ task[t].pc \in {"submit", "poll", "done"})
             /\ task[t].pc \in CriticalPcs <=> s_apns_mutex = t
             /\ task[t].pc = "give" => ~task[t].hd_open)
    /\ [][\A t \in TaskIds :
             (s_apns_mutex = t /\ s_apns_mutex' # t)
                 => /\ task[t].pc = "give"
                    /\ task'[t].pc \notin CriticalPcs
                    /\ ~task[t].hd_open
                    /\ s_apns_mutex' = 0]_vars
    /\ \A config \in Pointers, notification \in Pointers :
          (config = "NULL" \/ notification = "NULL")
              => /\ ~apns_entry(config, notification).takes
                 /\ apns_entry(config, notification).ret = ESP_ERR_INVALID_ARG

\* A send whose connection was opened and whose exchange failed has freed the
\* connection and is about to give the lock, with the other task waiting
C17_Witness ==
    \E t \in TaskIds, u \in TaskIds :
        /\ task[t].pc = "give"
        /\ task[t].fate \in {"submit_fail", "timeout", "exec_error", "response"}
        /\ ~task[t].hd_open
        /\ s_apns_mutex = t
        /\ task[u].pc = "take"

Pushes == {t \in TaskIds : task[t].kind = "push"}

\* C18: a well-formed POST /push can be answered whenever a task can be
\* created, whoever holds the lock; the step that creates the task answers
\* "queued" and does not touch the lock; a push task calls
\* apns_send_notification once, has called it exactly once when it ends, and
\* never moves again, whatever the result; and no step changes another task.
C18_PushOnceNoWait ==
    /\ [](/\ FreeSlots # {}
               => ENABLED (\E srv \in JsonValues, tok \in Tokens :
                              push_handler(TRUE, TRUE, TRUE, srv, tok))
          /\ \A t \in Pushes :
                /\ Len(task[t].sent) <= 1
                /\ task[t].pc = "exit" => Len(task[t].sent) = 1)
    /\ [][/\ \A t \in TaskIds :
                (task[t].kind = "none" /\ task'[t].kind = "push")
                    => /\ last'.op = "push"
                       /\ last'.resp = "queued"
                       /\ task'[t].pc = "take"
                       /\ UNCHANGED s_apns_mutex
          /\ \A t \in Pushes :
                /\ task[t].pc = "exit" => task'[t] = task[t]
                /\ (task[t].pc = "give" /\ task'[t] # task[t]) => task'[t].pc = "exit"
          /\ \A t \in TaskIds, u \in TaskIds :
                (t # u /\ task'[t] # task[t]) => task'[u] = task[u]]_vars

\* POST /push has just been answered "queued" while the other task is polling
\* the gateway with the lock held
C18_Witness ==
    /\ last.op = "push"
    /\ last.resp = "queued"
    /\ task[1].pc = "poll"
    /\ s_apns_mutex = 1
    /\ task[2].kind = "push"
    /\ task[2].pc = "take"
    /\ task[2].sent = <<>>

\* The slot in which the next task is created
NextSlot == CHOOSE x \in FreeSlots : \A y \in FreeSlots : x <= y

\* A well-formed POST /push or POST /blast with server_type item srv creates
\* a task whose use_sandbox is b
Selects(srv, b) ==
    /\ ENABLED (push_handler(TRUE, TRUE, TRUE, srv, "tokA")
                   /\ task'[NextSlot].use_sandbox = b)
    /\ ENABLED (blast_handler(TRUE, TRUE, TRUE, srv)
                   /\ task'[NextSlot].use_sandbox = b)
    /\ ~ENABLED (push_handler(TRUE, TRUE, TRUE, srv, "tokA")
                    /\ task'[NextSlot].use_sandbox # b)
    /\ ~ENABLED (blast_handler(TRUE, TRUE, TRUE, srv)
                    /\ task'[NextSlot].use_sandbox # b)

\* C19: /push and /blast create a production task exactly for the
\* server_type string "production" and a sandbox task for every other string,
\* for a value that is no string and for no server_type at all; a task
\* connects to the production host if and only if it is a production task,
\* and a broadcast enumerates the production send list if and only if it is
\* a production task, the sandbox send list otherwise.
C19_EnvironmentSelection ==
    /\ [](/\ FreeSlots # {}
               => \A srv \in JsonValues : Selects(srv, srv # "production")
          /\ \A t \in TaskIds :
                task[t].pc \in {"connect", "submit", "poll"}
                    => task[t].host = IF task[t].use_sandbox
                                      THEN "api.sandbox.push.apple.com"
                                      ELSE "api.push.apple.com")
    /\ [][\A t \in TaskIds :
             Len(task'[t].enumd) > Len(task[t].enumd)
                 => task'[t].enumd[Len(task'[t].enumd)]
                        = store[IF task[t].use_sandbox THEN NS_SEND_S ELSE NS_SEND_P]
                               [KeySeq[task'[t].pos]]]_vars

\* A broadcast created for production is connected to the production host
\* for the one record of the production send list
C19_Witness ==
    \E t \in Blasts :
        /\ ~task[t].use_sandbox
        /\ task[t].pc = "submit"
        /\ task[t].host = "api.push.apple.com"
        /\ task[t].enumd = <<store[NS_SEND_P]["10.0.0.1"]>>
        /\ task[t].enumd # <<NoTok>>

\* The two namespaces a delete request works on
DelList == IF last.op = "send_del" THEN {NS_SEND_S, NS_SEND_P}
           ELSE {NS_BLOCK_S, NS_BLOCK_P}

\* C20: after an authenticated DELETE /tokens/send or DELETE /tokens/block
\* the key is in neither environment of that list, every other entry of the
\* four stores is as it was, the answer is success exactly when an
\* environment of the list held the key before and not-found otherwise, and
\* a not-found answer leaves the stores as they were.
C20_DeleteByKey ==
    (last.op \in {"send_del", "block_del"} /\ last.auth)
        => LET had == {ns \in DelList : last.pre[ns][last.ip] # NoTok}
           IN /\ \A ns \in DelList : store[ns][last.ip] = NoTok
              /\ \A ns \in Namespaces, k \in Keys :
                    (ns \notin DelList \/ k # last.ip)
                        => store[ns][k] = last.pre[ns][k]
              /\ last.resp = IF had # {} THEN "ok" ELSE "not_found"
              /\ last.resp = "not_found" => store = last.pre

\* A key held in both environments of the send list and in the block list is
\* deleted from the send list
C20_Witness ==
    /\ last.op = "send_del" /\ last.auth /\ last.resp = "ok"
    /\ last.pre[NS_SEND_S][last.ip] # NoTok
    /\ last.pre[NS_SEND_P][last.ip] # NoTok
    /\ last.pre[NS_BLOCK_S][last.ip] # NoTok
    /\ store[NS_SEND_S][last.ip] = NoTok
    /\ store[NS_SEND_P][last.ip] = NoTok
    /\ store[NS_BLOCK_S][last.ip] # NoTok

\* The namespace a listed entry was read from
ListNs(e) == IF last.op = "send_get" THEN Allow(e) ELSE Deny(e)

\* The records of the listed list, as (environment, key) pairs
Held == {ek \in ServerTypes \X Keys : store[ListNs(ek[1])][ek[2]] # NoTok}

\* C21: an authenticated GET /tokens/send or GET /tokens/block returns at
\* most TOKEN_MAX_ENTRIES entries, each a record of the store its tag names,
\* sandbox entries before production entries, and, when both environments
\* together hold at most TOKEN_MAX_ENTRIES records, each record exactly once;
\* an enumeration of one environment returns records of that environment only.
C21_Enumeration ==
    /\ (last.op \in {"send_get", "block_get"} /\ last.auth)
          => LET out == last.out
             IN /\ Len(out) <= TOKEN_MAX_ENTRIES
                /\ \A i \in 1 .. Len(out) :
                      /\ out[i].server_type \in ServerTypes
                      /\ out[i].ip \in Keys
                      /\ out[i].token # NoTok
                      /\ out[i].token = store[ListNs(out[i].server_type)][out[i].ip]
                /\ \A i \in 1 .. Len(out), j \in 1 .. Len(out) :
                      (out[i].server_type = "production"
                          /\ out[j].server_type = "sandbox") => j < i
                /\ Cardinality(Held) <= TOKEN_MAX_ENTRIES
                      => \A ek \in Held :
                            Cardinality({i \in 1 .. Len(out) :
                                out[i].server_type = ek[1] /\ out[i].ip = ek[2]}) = 1
    /\ \A e \in ServerTypes :
          LET out == token_store_send_list_type(store, e, TOKEN_MAX_ENTRIES)
          IN \A i \in 1 .. Len(out) :
                /\ out[i].server_type = e
                /\ out[i].token = store[Allow(e)][out[i].ip]

\* The write and erase calls of one environment's half of the last move that
\* were made and failed: they are made when the read of the source succeeded
MoveFailed(e, base) ==
    IF /\ (base + 1) \notin last.flt
       /\ last.pre[MoveSrc(e)][last.ip] # NoTok
       /\ StrLen(last.pre[MoveSrc(e)][last.ip]) < TOKEN_LEN
    THEN {base + 2, base + 3} \cap last.flt
    ELSE {}

\* The storage writes and erases of the last request that were made and failed
FailedWrites ==
    CASE last.op = "register" ->
            IF last.resp \in {"bad_request", "blocked", "no_change"}
            THEN {} ELSE {3} \cap last.flt
      [] last.op \in {"block_post", "send_del", "block_del"} -> {1, 2} \cap last.flt
      [] last.op \in {"move_to_block", "move_to_send"} ->
            MoveFailed("sandbox", 0) \cup MoveFailed("production", 3)
      [] OTHER -> {}

\* C22: a registry mutation during which a storage write or erase failed is
\* never answered "ok".
C22_WriteFailureReported ==
    (last.auth /\ FailedWrites # {}) => last.resp # "ok"

\* An integer right-aligned in 32 bytes: left-padded with zeros when
\* shorter, cut to its trailing 32 bytes when longer
Slot(x) ==
    IF Len(x) <= 32 THEN [i \in 1 .. 32 - Len(x) |-> 0] \o x
    ELSE SubSeq(x, Len(x) - 31, Len(x))

\* C23: for a well-formed signature 30 len 02 rlen r 02 slen s with rlen and
\* slen in 1..33, der_sig_to_raw returns 0 and the 64 bytes are r and s, each
\* right-aligned in 32 bytes.
C23_DerToRaw ==
    (sig.done /\ sig.kind = "wellformed")
        => /\ sig.rc = 0
           /\ Len(sig.raw) = 64
           /\ sig.raw = Slot(sig.r) \o Slot(sig.s)

\* A 31-byte r is padded and a 33-byte s with leading 0x00 loses that byte
C23_Witness ==
    /\ sig.done /\ sig.kind = "wellformed" /\ sig.rc = 0
    /\ Len(sig.r) = 31 /\ Len(sig.s) = 33 /\ sig.s[1] = 0
    /\ sig.raw[1] = 0 /\ sig.raw[2] = sig.r[1] /\ sig.raw[32] = sig.r[31]
    /\ sig.raw[33] = sig.s[2] /\ sig.raw[64] = sig.s[33]

\* C24: for a buffer without SEQUENCE tag, without one of the INTEGER tags
\* or truncated at any length, der_sig_to_raw returns -1, and it never reads
\* der at an index at or beyond der_len.
C24_MalformedRejected ==
    sig.done
        => /\ sig.kind \in {"truncated", "notag"} => sig.rc = -1
           /\ \A i \in sig.reads : i < sig.der_len

\* The tasks whose running send failed to generate its credential
SigningFailed == {t \in TaskIds : task[t].fate = "jwt_fail"}

\* C25: a send whose credential generation fails goes straight to its end
\* with a failure result and no connection, still holding the lock it then
\* gives back; the failing step changes neither the cached credential nor
\* its timestamp and no other task; the send's return releases the lock and,
\* in a broadcast, is counted as one failure before the next send starts;
\* and whenever a send reaches the credential step with no valid credential,
\* generation is attempted again and can succeed.
C25_SigningFailure ==
    /\ [](\A t \in SigningFailed :
             /\ task[t].pc \in {"done", "give"}
             /\ task[t].ret # ESP_OK
             /\ ~task[t].hd_open
             /\ s_apns_mutex = t
             /\ ENABLED SendStep(t))
    /\ [](\A t \in TaskIds :
             (task[t].pc = "jwt" /\ (s_jwt_generated_at = 0
                  \/ now - s_jwt_generated_at >= JWT_VALID_SECONDS))
                 => /\ ENABLED (SendPrepare(t, 0, TRUE, TRUE) /\ task'[t].jwtgen
                                  /\ task'[t].pc = "connect"
                                  /\ s_jwt_generated_at' = now)
                    /\ ~ENABLED (SendStep(t) /\ ~task'[t].jwtgen
                                   /\ task'[t].fate # "jwt_fail"))
    /\ [][\A t \in TaskIds :
             /\ (t \notin SigningFailed /\ task'[t].fate = "jwt_fail")
                   => /\ task[t].pc = "jwt"
                      /\ UNCHANGED <<s_jwt_cache, s_jwt_generated_at, s_apns_mutex>>
                      /\ \A u \in TaskIds \ {t} : task'[u] = task[u]
             /\ (t \in SigningFailed /\ task'[t] # task[t])
                   => /\ UNCHANGED <<s_jwt_cache, s_jwt_generated_at>>
                      /\ \A u \in TaskIds \ {t} : task'[u] = task[u]
                      /\ ~task'[t].hd_open
                      /\ task[t].pc = "give"
                            => /\ s_apns_mutex' = 0
                               /\ task'[t].pc \in {"take", "exit"}
                               /\ task[t].kind = "blast"
                                     => /\ task'[t].fail = task[t].fail + 1
                                        /\ task'[t].ok = task[t].ok]_vars

\* No credential was ever generated although the first send of a broadcast
\* has failed; its second send is at the credential step
C25_Witness ==
    \E t \in Blasts :
        /\ s_jwt_generated_at = 0
        /\ task[t].i = 1
        /\ task[t].fail = 1
        /\ Len(task[t].sent) = 1
        /\ task[t].pc = "jwt"

\* C26: no task takes the lock while a task that called for it earlier, and
\* blocked, is still waiting.
C26_ArrivalOrder == lock.passed = {}

FragmentFields(custom) ==
    IF custom = "\"type\":\"alert\"" THEN {"type"}
    ELSE IF custom = "\"type\":\"alert\",\"id\":42" THEN {"type", "id"}
    ELSE {}

\* The names of the top-level fields of a body
RootFields(json) == {json.root[i] : i \in 1 .. Len(json.root)}

\* C28: a body built for a notification that carries a custom_payload has the
\* fields of that fragment as top-level fields next to "aps"; a body built for
\* a notification without one has "aps" as its only top-level field.
C28_CustomPayloadSpliced ==
    post.op # "none" =>
        RootFields(post.json) = {"aps"} \cup
            (IF post.notif.custom_payload # "NULL"
             THEN FragmentFields(post.notif.custom_payload) ELSE {})

\* A header that carries the configured user:password
Credentials(h) == h.len > 0 /\ h.base64 /\ c_str(h.decoded) = Expected

C30_BlockedAnyEnvironment ==
    (Registered /\ \E e \in ServerTypes : last.pre[Deny(e)][last.ip] # NoTok)
        => /\ last.resp = "blocked"
           /\ store = last.pre

Accessing == {t \in TaskIds : task[t].pc \in {"jwt", "connect", "submit", "poll"}}

\* C32: a task that is at a position where it reads or writes s_jwt_cache,
\* s_jwt_generated_at or the callback context holds s_apns_mutex, and every
\* step that changes one of them is a step of the task holding the mutex and
\* of no other task.
C32_CacheUnderLock ==
    /\ [](\A t \in Accessing : s_apns_mutex = t)
    /\ [][<<s_jwt_cache, s_jwt_generated_at, cb>>' # <<s_jwt_cache, s_jwt_generated_at, cb>>
             => /\ s_apns_mutex \in Accessing
                /\ task'[s_apns_mutex] # task[s_apns_mutex]
                /\ \A u \in TaskIds \ {s_apns_mutex} : task'[u] = task[u]]_vars

\* A push holds the mutex with a response in the callback context while a
\* broadcast waits for the mutex
C32_Witness ==
    \E t \in Pushes, u \in Blasts :
        /\ s_apns_mutex = t
        /\ task[t].pc = "poll"
        /\ cb.s_resp_len > 0
        /\ s_jwt_cache # 0
        /\ task[u].pc = "take"
        /\ task[u].count > 0

\* C33: after a move, for every environment whose source list held the key
\* before it, the token of the key is in the source list or in the
\* destination list, whichever storage step failed.
C33_MoveKeepsRecord ==
    (last.auth /\ last.op \in {"move_to_block", "move_to_send"}) =>
        \A e \in ServerTypes :
            LET tok == last.pre[MoveSrc(e)][last.ip]
            IN tok # NoTok =>
                  \/ store[MoveSrc(e)][last.ip] = tok
                  \/ store[MoveDst(e)][last.ip] = tok

\* C34: a POST /tokens/block that is answered "ok" has written the token
\* under the key in both block stores with neither write failing, has left
\* both send stores as they were, and a register of the key that follows is
\* answered "blocked" for either server type.
C34_BlockSetBoth ==
    (last.auth /\ last.op = "block_post" /\ last.resp = "ok") =>
        /\ {1, 2} \cap last.flt = {}
        /\ \A e \in ServerTypes :
              /\ store[Deny(e)][last.ip] = last.token
              /\ store[Allow(e)] = last.pre[Allow(e)]
              /\ \A tok \in Tokens :
                    register(store, e, last.ip, tok, {}).resp = "blocked"

\* C35: no step of a push or broadcast task, and no /push or /blast request,
\* changes any of the four stores, whatever the result of a send.
C35_DispatchKeepsRegistry ==
    [][task' # task => store' = store]_vars

\* A broadcast over a provisioned send list has ended; its last send was
\* answered "Unregistered" and counted as a failure, and the list still holds
\* every record
C35_Witness ==
    \E u \in Blasts :
        /\ task[u].pc = "exit"
        /\ task[u].count > 0
        /\ task[u].fail > 0
        /\ \A t \in TaskIds \ {u} : task[t].kind = "none"
        /\ cb.s_resp_done
        /\ cb.s_resp_body = "Unregistered"
        /\ store = Provisioned

\* Tasks between the preparation of a request and the first round of the loop
Submitting ==
    {t \in TaskIds : \/ task[t].pc \in {"connect", "submit"}
                     \/ task[t].pc = "poll" /\ task[t].rounds = 0}

\* C36: when a request is connected and submitted, and when its polling loop
\* starts, s_resp_done is false, s_resp_len is 0, s_resp_body is empty and
\* s_post_offset is 0, whatever earlier sends left there.
C36_CleanResponseState ==
    \A t \in Submitting :
        /\ ~cb.s_resp_done
        /\ cb.s_resp_len = 0
        /\ cb.s_resp_body = ""
        /\ cb.s_post_offset = 0

\* The second send of a broadcast is about to be submitted after a first
\* send that failed
C36_Witness ==
    \E u \in Blasts :
        /\ task[u].pc = "submit"
        /\ task[u].i = 1
        /\ task[u].fail = 1
        /\ cb = FreshContext

\* C37: a send returns ESP_OK only when the response ended with its final
\* data frame and no body: no round of the polling loop in which the stream
\* is reset leaves a context without body that the evaluation reports as
\* ESP_OK.
C37_ResetIsNotSuccess ==
    \A t \in TaskIds :
        task[t].pc = "poll" =>
            \A b \in ResponseBodies :
                ~ENABLED (/\ SendPoll(t, "rst", b)
                          /\ cb'.s_resp_done
                          /\ cb'.s_resp_len = 0
                          /\ evaluate_response(cb') = ESP_OK)

\* C38: the server runs only when nvs_flash_init, token_store_init and
\* apns_init have succeeded and WiFi is connected; a request is handled, a
\* task exists or the mutex is taken only when the registry and the mutex
\* exist; and an app_main that returned because WiFi failed, or that
\* aborted, has started no server.
C38_StartupOrder ==
    /\ boot.server => boot.nvs /\ boot.token_store /\ boot.mutex /\ boot.wifi
    /\ (nreq > 0 \/ s_apns_mutex # 0 \/ \E t \in TaskIds : task[t].kind # "none")
          => boot.server /\ boot.nvs /\ boot.token_store /\ boot.mutex
    /\ boot.pc \in {"returned", "abort"} => ~boot.server
    /\ boot.pc = "returned" => ~boot.wifi

\* The server runs after a start in which the flash was erased, WiFi came
\* up and the time was not synchronised; a registration has been stored and
\* a push task holds the mutex
C38_Witness ==
    /\ boot.pc = "running"
    /\ boot.server
    /\ boot.erased
    /\ ~boot.synced
    /\ store[NS_SEND_S]["10.0.0.1"] = "tokA"
    /\ \E t \in TaskIds : task[t].kind = "push" /\ s_apns_mutex = t

\* C39: the heap context of a push or blast request is owned by one party at
\* a time (the handler up to xTaskCreate, the task after it), is freed once
\* and only once: by the task, after its sends have finished, or by the
\* handler when xTaskCreate fails, in which case nothing was sent with it and
\* the answer is an error and not "queued"; and no step of the handler or of
\* a task reads it after it was freed, in whatever order they run.
C39_ContextFreedOnce ==
    \A c \in CtxIds :
        LET x == heap.ctx[c]
            handler_owns == heap.h = c /\ heap.hpc = "xTaskCreate"
            task_owns == x.pc \in {"list", "send", "free"}
        IN /\ x.frees <= 1
           /\ ~x.stale
           /\ x.state = "live" => (handler_owns /\ ~task_owns) \/ (task_owns /\ ~handler_owns)
           /\ x.state = "freed" <=> x.frees = 1
           /\ x.pc = "deleted" => x.freed_by = "task"
           /\ x.freed_by = "task" => x.pc = "deleted" /\ x.left = 0
           /\ x.freed_by = "handler" => x.pc = "none" /\ x.sends = 0 /\ x.resp = "error"
           /\ x.resp = "queued" => x.pc # "none" /\ x.freed_by # "handler"
           /\ x.sends > 0 => x.pc # "none"

C39_Witness ==
    \E c, d \in CtxIds :
        /\ heap.ctx[c].freed_by = "task" /\ heap.ctx[c].kind = "blast"
        /\ heap.ctx[c].sends = 2 /\ heap.ctx[c].resp = "queued"
        /\ heap.ctx[d].freed_by = "handler" /\ heap.ctx[d].resp = "error"
        /\ heap.ctx[d].sends = 0

====
